---------------------------- MODULE Spec2Model ----------------------------
(***************************************************************************)
(* A model of the resume analysis service (document-parser-service):       *)
(*   - the rule-based section segmenter of main_old.py (DocumentParser),   *)
(*   - the OpenRouter ATS scorer of ai_ats_scorer.py (AIATSScorer),        *)
(*   - the Ollama ATS scorer of ollama_resume_analyzer.py.                 *)
(* Texts are TLA+ strings; Python's str operations (lower, strip, split,   *)
(* istitle, the `in` substring test, join) are computed character by       *)
(* character.  Python indexes lines from 0, the model from 1.              *)
(***************************************************************************)
EXTENDS Integers, Sequences, FiniteSets, TLC

VARIABLES
    sys,          \* which component this behaviour exercises
    pc,           \* position inside the running function
    raw_text,     \* segmenter: the text handed to parse_resume_text
    lines,        \* segmenter: the non-blank, stripped lines
    used_lines,   \* segmenter: the set of claimed line indices
    sections,     \* the list of ResumeSection (segmenter output, scorer input)
    api_key_arg,  \* the api_key argument of AIATSScorer(...), "" for None
    env_key,      \* the environment's OPENROUTER_API_KEY, "" when unset
    api_key,      \* AIATSScorer.api_key
    outcome,      \* what the external model call produced
    model_calls,  \* number of requests issued to the external model
    result,       \* the ATSScore returned to the caller
    returned_by,  \* which return statement produced result
    analyzer,     \* service: the module-level analyzer of main.py, "none" for None
    running,      \* service: the request whose code holds the event loop, 0 for none
    requests      \* service: per request, where its handler stands and what it has

vars == <<sys, pc, raw_text, lines, used_lines, sections, api_key_arg, env_key,
          api_key, outcome, model_calls, result, returned_by, analyzer, running,
          requests>>

---------------------------------------------------------------------------
(* Python str operations *)

Char(s, i) == SubSeq(s, i, i)

\* characters i..j of s, cut at the end of s
Slice(s, i, j) == SubSeq(s, i, IF j > Len(s) THEN Len(s) ELSE j)

\* Python: k in s
Contains(k, s) == \E i \in 1..(Len(s) - Len(k) + 1) : SubSeq(s, i, i + Len(k) - 1) = k

\* Python: any(k in s for k in ks)
ContainsAny(ks, s) == \E k \in ks : Contains(k, s)

UpperAlpha == "ABCDEFGHIJKLMNOPQRSTUVWXYZ"
LowerAlpha == "abcdefghijklmnopqrstuvwxyz"
Digits == "0123456789"

IsUpperChar(c) == Contains(c, UpperAlpha)
IsLowerChar(c) == Contains(c, LowerAlpha)
IsDigitChar(c) == Contains(c, Digits)
IsSpaceChar(c) == c \in {" ", "\t", "\n", "\r"}

LowerChar(c) ==
    IF IsUpperChar(c)
    THEN Char(LowerAlpha, CHOOSE i \in 1..26 : Char(UpperAlpha, i) = c)
    ELSE c

UpperChar(c) ==
    IF IsLowerChar(c)
    THEN Char(UpperAlpha, CHOOSE i \in 1..26 : Char(LowerAlpha, i) = c)
    ELSE c

RECURSIVE MapRange(_, _, _, _)
\* the characters i..j of s, each in upper or in lower case
MapRange(s, i, j, upper) ==
    IF i > j THEN ""
    ELSE IF i = j THEN (IF upper THEN UpperChar(Char(s, i)) ELSE LowerChar(Char(s, i)))
    ELSE MapRange(s, i, (i + j) \div 2, upper) \o MapRange(s, (i + j) \div 2 + 1, j, upper)

\* Python: s.lower(), s.upper()
Lower(s) == MapRange(s, 1, Len(s), FALSE)
Upper(s) == MapRange(s, 1, Len(s), TRUE)

Min(a, b) == IF a <= b THEN a ELSE b
Max(a, b) == IF a >= b THEN a ELSE b

\* the first position from i on whose character satisfies Stop, or Len(s) + 1
\* (i itself when i is beyond the end of s)
ScanUp(s, i, Stop(_)) ==
    CHOOSE j \in i..Max(i, Len(s) + 1) :
        /\ j > Len(s) \/ Stop(Char(s, j))
        /\ \A k \in i..(j - 1) : ~Stop(Char(s, k))

\* the last position up to i whose character satisfies Stop, or 0
ScanDown(s, i, Stop(_)) ==
    i - (CHOOSE d \in 0..Max(i, 0) :
            /\ d >= i \/ Stop(Char(s, i - d))
            /\ \A e \in 0..(d - 1) : ~Stop(Char(s, i - e)))

FirstNonSpace(s, i) == ScanUp(s, i, LAMBDA c : ~IsSpaceChar(c))
LastNonSpace(s, i) == ScanDown(s, i, LAMBDA c : ~IsSpaceChar(c))

\* Python: s.strip()
Strip(s) == SubSeq(s, FirstNonSpace(s, 1), LastNonSpace(s, Len(s)))

\* Python: len(s.split())
WordCount(s) ==
    Cardinality({i \in 1..Len(s) :
        /\ ~IsSpaceChar(Char(s, i))
        /\ (i = 1 \/ IsSpaceChar(Char(s, i - 1)))})

\* Python: any(char.isdigit() for char in s)
HasDigit(s) == \E i \in 1..Len(s) : IsDigitChar(Char(s, i))

\* Python: s.istitle()
IsTitle(s) ==
    LET cased(i) == IsUpperChar(Char(s, i)) \/ IsLowerChar(Char(s, i))
    IN  /\ \E i \in 1..Len(s) : cased(i)
        /\ \A i \in 1..Len(s) :
              /\ IsUpperChar(Char(s, i)) => (i = 1 \/ ~cased(i - 1))
              /\ IsLowerChar(Char(s, i)) => (i > 1 /\ cased(i - 1))

\* the first position from i on where s holds the character c, or Len(s) + 1
FirstAt(s, c, i) == ScanUp(s, i, LAMBDA x : x = c)

RECURSIVE SplitFrom(_, _, _)
SplitFrom(s, sep, start) ==
    LET h == FirstAt(s, sep, start)
    IN  IF h > Len(s) THEN <<SubSeq(s, start, Len(s))>>
        ELSE <<SubSeq(s, start, h - 1)>> \o SplitFrom(s, sep, h + 1)

\* Python: s.split(sep), sep one character
Split(s, sep) == SplitFrom(s, sep, 1)

RECURSIVE Join(_, _)
\* Python: sep.join(parts)
Join(sep, parts) ==
    IF Len(parts) = 0 THEN ""
    ELSE IF Len(parts) = 1 THEN parts[1]
    ELSE parts[1] \o sep \o Join(sep, Tail(parts))

Range(s) == {s[i] : i \in DOMAIN s}

---------------------------------------------------------------------------
(* json.loads and re.search(r'\{.*\}', text, re.DOTALL), on strings.          *)
(* A JSON value is a tagged record; an object is its list of (key, value)     *)
(* pairs in source order.  Numbers are integers and strings hold no escapes:  *)
(* the texts of this model use no other JSON.                                 *)

\* `LET x == value IN In(x)` with value computed once, whatever In does with x
Bind(value, In(_)) == CHOOSE r \in {In(x) : x \in {value}} : TRUE

JInt(n) == [t |-> "int", v |-> n]
JStr(x) == [t |-> "str", v |-> x]
JBool(b) == [t |-> "bool", v |-> b]
JNull == [t |-> "null"]
JList(items) == [t |-> "list", v |-> items]
JObj(pairs) == [t |-> "obj", v |-> pairs]
JInvalid == [t |-> "invalid"]

Parsed(val, pos) == [ok |-> TRUE, val |-> val, pos |-> pos]
ParseFail == [ok |-> FALSE, val |-> JInvalid, pos |-> 1]

SkipWs(s, i) == FirstNonSpace(s, i)

\* the first position from i on that holds no digit
DigitsEnd(s, i) == ScanUp(s, i, LAMBDA c : ~IsDigitChar(c))

DigitValue(c) == (CHOOSE k \in 1..10 : Char(Digits, k) = c) - 1

RECURSIVE NatValue(_, _, _)
NatValue(s, i, j) ==
    IF j < i THEN 0 ELSE 10 * NatValue(s, i, j - 1) + DigitValue(Char(s, j))

ParseNumber(s, i) ==
    LET neg == i <= Len(s) /\ Char(s, i) = "-"
        from == IF neg THEN i + 1 ELSE i
    IN  Bind(DigitsEnd(s, from), LAMBDA to :
        Bind(NatValue(s, from, to - 1), LAMBDA n :
            IF to = from THEN ParseFail
            \* a fraction or an exponent would make a float: not a text of this model
            ELSE IF to <= Len(s) /\ Char(s, to) \in {".", "e", "E"} THEN ParseFail
            ELSE Parsed(JInt(IF neg THEN 0 - n ELSE n), to)))

ParseString(s, i) ==
    Bind(FirstAt(s, "\"", i + 1), LAMBDA close :
    Bind(IF close > Len(s) THEN "" ELSE SubSeq(s, i + 1, close - 1), LAMBDA body :
        IF close > Len(s) \/ Contains("\\", body) \/ Contains("\n", body) THEN ParseFail
        ELSE Parsed(JStr(body), close + 1)))

ParseLiteral(s, i, word, val) ==
    IF Slice(s, i, i + Len(word) - 1) = word THEN Parsed(val, i + Len(word)) ELSE ParseFail

RECURSIVE ParseValue(_, _)
RECURSIVE ParseItems(_, _, _)
RECURSIVE ParseMember(_, _)
RECURSIVE ParseMembers(_, _, _)

\* the items of a list after '[' or after a ',': i is at the next item
ParseItems(s, i, acc) ==
    Bind(ParseValue(s, SkipWs(s, i)), LAMBDA item :
        LET j == SkipWs(s, item.pos)
        IN  IF ~item.ok \/ j > Len(s) THEN ParseFail
            ELSE IF Char(s, j) = "," THEN ParseItems(s, j + 1, Append(acc, item.val))
            ELSE IF Char(s, j) = "]" THEN Parsed(JList(Append(acc, item.val)), j + 1)
            ELSE ParseFail)

\* the members of an object after '{' or after a ',': i is at the next key
ParseMember(s, i) ==
    LET k == SkipWs(s, i)
    IN  Bind(IF k <= Len(s) /\ Char(s, k) = "\"" THEN ParseString(s, k) ELSE ParseFail,
             LAMBDA key :
            LET colon == SkipWs(s, key.pos)
                val == IF key.ok /\ colon <= Len(s) /\ Char(s, colon) = ":"
                       THEN ParseValue(s, SkipWs(s, colon + 1)) ELSE ParseFail
            IN  Bind(val, LAMBDA v :
                    IF v.ok THEN Parsed(<<key.val.v, v.val>>, v.pos) ELSE ParseFail))

ParseMembers(s, i, acc) ==
    Bind(ParseMember(s, i), LAMBDA member :
        LET j == SkipWs(s, member.pos)
        IN  IF ~member.ok \/ j > Len(s) THEN ParseFail
            ELSE IF Char(s, j) = "," THEN ParseMembers(s, j + 1, Append(acc, member.val))
            ELSE IF Char(s, j) = "}" THEN Parsed(JObj(Append(acc, member.val)), j + 1)
            ELSE ParseFail)

ParseValue(s, i) ==
    IF i > Len(s) THEN ParseFail
    ELSE LET c == Char(s, i)
             j == SkipWs(s, i + 1)
         IN  IF c = "{"
             THEN IF j <= Len(s) /\ Char(s, j) = "}" THEN Parsed(JObj(<<>>), j + 1)
                  ELSE ParseMembers(s, i + 1, <<>>)
             ELSE IF c = "["
             THEN IF j <= Len(s) /\ Char(s, j) = "]" THEN Parsed(JList(<<>>), j + 1)
                  ELSE ParseItems(s, i + 1, <<>>)
             ELSE IF c = "\"" THEN ParseString(s, i)
             ELSE IF c = "t" THEN ParseLiteral(s, i, "true", JBool(TRUE))
             ELSE IF c = "f" THEN ParseLiteral(s, i, "false", JBool(FALSE))
             ELSE IF c = "n" THEN ParseLiteral(s, i, "null", JNull)
             ELSE ParseNumber(s, i)

\* Python: json.loads(text); JInvalid stands for json.JSONDecodeError
json_loads(text) ==
    Bind(text, LAMBDA s :
    Bind(ParseValue(s, SkipWs(s, 1)), LAMBDA r :
        IF r.ok /\ SkipWs(s, r.pos) > Len(s) THEN r.val ELSE JInvalid))

\* the last position up to i where s holds the character c, or 0
LastAt(s, c, i) == ScanDown(s, i, LAMBDA x : x = c)

\* Python: m = re.search(r'\{.*\}', text, re.DOTALL); m.group(), "" when m is None
\* (greedy, DOTALL: from the first '{' to the last '}' of the text)
json_match(text) ==
    Bind(text, LAMBDA s :
    Bind(FirstAt(s, "{", 1), LAMBDA open :
    Bind(LastAt(s, "}", Len(s)), LAMBDA close :
        IF open <= Len(s) /\ close > open THEN SubSeq(s, open, close) ELSE "")))

RECURSIVE RemoveFrom(_, _, _)
\* s from position i on, without the occurrences of pat found from left to right
RemoveFrom(s, pat, i) ==
    Bind({j \in i..(Len(s) - Len(pat) + 1) : SubSeq(s, j, j + Len(pat) - 1) = pat},
         LAMBDA found :
        IF found = {} THEN SubSeq(s, i, Len(s))
        ELSE Bind(CHOOSE j \in found : \A k \in found : j <= k, LAMBDA j :
                 SubSeq(s, i, j - 1) \o RemoveFrom(s, pat, j + Len(pat))))

\* Python: text.replace(pat, '')
RemoveAll(text, pat) == Bind(text, LAMBDA s : RemoveFrom(s, pat, 1))

\* Python: dict.get(key) on the pairs of an object: the last pair of that key wins
HasKey(obj, key) == \E k \in 1..Len(obj.v) : obj.v[k][1] = key
Get(obj, key) ==
    LET ks == {k \in 1..Len(obj.v) : obj.v[k][1] = key}
    IN  obj.v[CHOOSE k \in ks : \A j \in ks : j <= k][2]

---------------------------------------------------------------------------
(* DocumentParser (main_old.py): the predicates its passes apply to a line *)

PersonalPatterns == {"@", ".com", ".org", ".net"}
PersonalKeywords == {"phone", "mobile", "tel", "linkedin", "github"}
PersonalLocations == {"india", "usa", "uk", "canada", "city", "state"}

\* the `if` of the personal pass: email, phone, digits, location
personal_contact(line) ==
    \/ ContainsAny(PersonalPatterns, line)
    \/ ContainsAny(PersonalKeywords, Lower(line))
    \/ (HasDigit(line) /\ Len(line) > 8)
    \/ ContainsAny(PersonalLocations, Lower(line))

\* the `elif` of the personal pass, without its test i == 0
personal_name(line) == WordCount(line) <= 4 /\ IsTitle(line)

SummaryStart == {"objective", "summary", "profile", "about"}
SummaryHeaders == {"objective", "summary", "profile", "about"}
SummaryEnd == {"experience", "education", "skills", "projects"}

WorkKeywords == {"experience", "work", "employment", "career"}
WorkTitles == {"developer", "engineer", "manager", "analyst", "consultant", "lead", "senior"}
WorkCompanies == {"corp", "inc", "ltd", "company", "technologies", "systems"}
WorkActivities == {"led", "managed", "developed", "built", "implemented", "delivered", "improved"}
WorkYears == {"2020", "2021", "2022", "2023", "2024"}
WorkYearIndicators == {"present", "current", "-", "to"}
WorkTech == {"agile", "team", "client", "project", "system", "application"}

is_work_content(line) ==
    LET line_lower == Strip(Lower(line))
    IN  \/ ContainsAny(WorkKeywords, line_lower)
        \/ ContainsAny(WorkTitles, line_lower)
        \/ ContainsAny(WorkCompanies, line_lower)
        \/ ContainsAny(WorkActivities, line_lower)
        \/ (ContainsAny(WorkYears, line) /\ ContainsAny(WorkYearIndicators, line_lower))
        \/ ContainsAny(WorkTech, line_lower)

EducationStart == {"education", "academic", "qualification", "degree", "university", "college"}
EducationHeaders == {"education", "academic background", "qualifications"}
EducationEnd == {"skills", "projects", "experience", "additional"}

SkillsStart == {"skills", "technical", "competenc", "technolog"}
SkillsHeaders == {"skills", "technical skills", "competencies", "technologies"}
SkillsEnd == {"projects", "experience", "education", "additional"}

ProjectsStart == {"projects", "portfolio"}
ProjectsHeaders == {"projects", "portfolio", "key projects"}
ProjectsEnd == {"additional", "other", "leadership"}

RemainingEducationWords ==
    {"degree", "university", "college", "bachelor", "master", "phd", "diploma",
     "certification", "gpa"}
RemainingSkillsWords ==
    {"programming", "languages", "frameworks", "tools", "software", "database",
     "cloud", "aws", "python", "java", "javascript", "react", "node"}

education_remaining(line) ==
    LET line_lower == Strip(Lower(line))
    IN  \/ line_lower \in EducationHeaders
        \/ ContainsAny(RemainingEducationWords, line_lower)

skills_remaining(line) ==
    LET line_lower == Strip(Lower(line))
    IN  \/ line_lower \in SkillsHeaders
        \/ ContainsAny(RemainingSkillsWords, line_lower)

AdditionalSkippedHeaders ==
    {"objective", "education", "skills", "experience", "projects", "summary",
     "work experience", "technical skills", "professional summary"}
AdditionalKeywords ==
    {"leadership", "additional", "other", "activities", "interests", "hobbies",
     "http", "www", ".com", "portfolio", "website"}
AdditionalExcluded ==
    {"developer", "engineer", "manager", "led", "built", "developed", "implemented",
     "delivered", "improved", "corp", "inc", "company", "2020", "2021", "2022",
     "2023", "2024", "education", "degree", "university", "college", "skills",
     "programming", "languages", "frameworks", "objective", "summary"}

\* whether the additional pass keeps an unclaimed line
additional_keeps(line) ==
    LET line_lower == Strip(Lower(line))
    IN  /\ Strip(line) # ""
        /\ line_lower \notin AdditionalSkippedHeaders
        /\ \/ ContainsAny(AdditionalKeywords, line_lower)
           \/ (~ContainsAny(AdditionalExcluded, line_lower) /\ Len(Strip(line)) > 3)

\* the three tests of a contiguous in/out pass, on one line
mode_tests(line, Start, Headers, End) ==
    LET line_lower == Strip(Lower(line))
    IN  [start  |-> ContainsAny(Start, line_lower),
         header |-> line_lower \in Headers,
         end    |-> ContainsAny(End, line_lower)]

---------------------------------------------------------------------------
(* The texts the segmenter is run on *)

MaxLines == 3        \* longest text built from every combination of ShortPool lines
MaxLongLines == 13   \* longest text built from one repeated line and one other line

\* raw lines of an extracted document, before any stripping
ShortPool ==
    {"John Doe", "john@example.com", "EXPERIENCE", "Loves a good team",
     "Education", "State University 2019", "Python, SQL, Docker", "Profile",
     "Summary", "  Hobbies: chess ", "", "ab"}

LongBase == {"Summary", "ab", "Python, SQL, Docker"}
LongOther ==
    {"john@example.com", "Loves a good team", "ab", "Profile", "Key Projects",
     "Enjoys long walks", "Summary of skills"}

ScenarioA ==
    <<"John Doe", "john@example.com", "555-123-4567", "", "EXPERIENCE",
      "Software Engineer at Acme Corp 2020-Present", "Built scalable systems.", "",
      "EDUCATION", "Bachelor of Science, State University, 2019", "", "SKILLS",
      "Python, SQL, Docker">>

\* lines that are nothing but the header of a section
HeaderOnlyLines ==
    {"Profile", "About", "Qualifications", "Academic Background", "Competencies",
     "Technologies", "Portfolio", "Key Projects"}

\* documents that take the passes through their header, end-keyword and salvage cases
PassScenarios ==
    {<<"SUMMARY", "Loves a good team", "EXPERIENCE", "Enjoys long walks">>,
     <<"EDUCATION", "Bachelor of Arts", "Loves a good team", "ab">>,
     <<"Bachelor of Arts", "Education", "ab">>}
    \cup {<<"ab", h, "Enjoys long walks">> : h \in HeaderOnlyLines}

RECURSIVE SeqsUpTo(_, _)
\* all sequences over S of length at most n
SeqsUpTo(S, n) ==
    IF n = 0 THEN {<<>>}
    ELSE LET shorter == SeqsUpTo(S, n - 1)
         IN  shorter \cup {Append(q, x) : q \in {r \in shorter : Len(r) = n - 1}, x \in S}

LongDocs ==
    {[i \in 1..n |-> IF i = p THEN b ELSE a] :
        n \in 1..MaxLongLines, p \in 1..MaxLongLines, a \in LongBase, b \in LongOther}

RawDocs == SeqsUpTo(ShortPool, MaxLines) \cup LongDocs \cup {ScenarioA} \cup PassScenarios

\* every line that can reach a pass: parse_resume_text strips each and drops the blank
LinePool ==
    {Strip(l) : l \in ShortPool \cup LongBase \cup LongOther \cup Range(ScenarioA)
                      \cup UNION {Range(d) : d \in PassScenarios}} \ {""}

\* the predicates of the passes, evaluated once per line of the pool
LineFacts ==
    [l \in LinePool |->
        [personal_contact    |-> personal_contact(l),
         personal_name       |-> personal_name(l),
         nonblank            |-> Strip(l) # "",
         summary             |-> mode_tests(l, SummaryStart, SummaryHeaders, SummaryEnd),
         work                |-> is_work_content(l),
         education           |-> mode_tests(l, EducationStart, EducationHeaders, EducationEnd),
         skills              |-> mode_tests(l, SkillsStart, SkillsHeaders, SkillsEnd),
         projects            |-> mode_tests(l, ProjectsStart, ProjectsHeaders, ProjectsEnd),
         education_remaining |-> education_remaining(l),
         skills_remaining    |-> skills_remaining(l),
         additional          |-> additional_keeps(l)]]

---------------------------------------------------------------------------
(* DocumentParser (main_old.py): the passes *)

RECURSIVE AscSeq(_)
\* the elements of a set of numbers in ascending order
AscSeq(S) ==
    IF S = {} THEN <<>>
    ELSE LET m == CHOOSE x \in S : \A y \in S : x <= y
         IN  <<m>> \o AscSeq(S \ {m})

\* what a pass returns: the joined content and the claimed indices, in line order
Extracted(ls, idx) == [content |-> Join("\n", [k \in 1..Len(idx) |-> ls[idx[k]]]), idx |-> idx]

extract_personal_info_with_tracking(ls) ==
    Extracted(ls, AscSeq({i \in 1..Min(10, Len(ls)) :
        \/ LineFacts[ls[i]].personal_contact
        \/ (i = 1 /\ LineFacts[ls[i]].personal_name)}))

RECURSIVE mode_scan_continues(_, _, _, _, _, _)
\* mutant: the line with an end keyword is passed over and the loop goes on
mode_scan_continues(ls, used, key, i, in_mode, acc) ==
    IF i > Len(ls) THEN acc
    ELSE IF i \in used THEN mode_scan_continues(ls, used, key, i + 1, in_mode, acc)
    ELSE LET t == LineFacts[ls[i]][key]
         IN  IF t.start
             THEN mode_scan_continues(ls, used, key, i + 1, TRUE,
                                      IF ~t.header THEN Append(acc, i) ELSE acc)
             ELSE IF in_mode /\ t.end
             THEN mode_scan_continues(ls, used, key, i + 1, in_mode, acc)
             ELSE mode_scan_continues(ls, used, key, i + 1, in_mode,
                                      IF in_mode /\ LineFacts[ls[i]].nonblank
                                      THEN Append(acc, i) ELSE acc)

RECURSIVE mode_scan(_, _, _, _, _, _)
\* the loop shared by the summary, education, skills and projects passes
mode_scan(ls, used, key, i, in_mode, acc) ==
    IF i > Len(ls) THEN acc
    ELSE IF i \in used THEN mode_scan(ls, used, key, i + 1, in_mode, acc)
    ELSE LET t == LineFacts[ls[i]][key]
         IN  IF t.start
             THEN mode_scan(ls, used, key, i + 1, TRUE,
                            IF ~t.header THEN Append(acc, i) ELSE acc)
             ELSE IF in_mode /\ t.end THEN acc
             ELSE mode_scan(ls, used, key, i + 1, in_mode,
                            IF in_mode /\ LineFacts[ls[i]].nonblank
                            THEN Append(acc, i) ELSE acc)

extract_summary_with_tracking(ls, used) ==
    Extracted(ls, mode_scan(ls, used, "summary", 1, FALSE, <<>>))

\* mutant: the experience pass without its test `if i in used_lines: continue`
extract_all_experience_rescans(ls, used) ==
    Extracted(ls, AscSeq({i \in 1..Len(ls) : LineFacts[ls[i]].work}))

extract_all_experience(ls, used) ==
    Extracted(ls, AscSeq({i \in 1..Len(ls) : i \notin used /\ LineFacts[ls[i]].work}))

extract_education_with_tracking(ls, used) ==
    Extracted(ls, mode_scan(ls, used, "education", 1, FALSE, <<>>))

extract_skills_with_tracking(ls, used) ==
    Extracted(ls, mode_scan(ls, used, "skills", 1, FALSE, <<>>))

extract_projects_with_tracking(ls, used) ==
    Extracted(ls, mode_scan(ls, used, "projects", 1, FALSE, <<>>))

extract_education_from_remaining(ls, used) ==
    Extracted(ls, AscSeq({i \in 1..Len(ls) :
        i \notin used /\ LineFacts[ls[i]].nonblank /\ LineFacts[ls[i]].education_remaining}))

extract_skills_from_remaining(ls, used) ==
    Extracted(ls, AscSeq({i \in 1..Len(ls) :
        i \notin used /\ LineFacts[ls[i]].nonblank /\ LineFacts[ls[i]].skills_remaining}))

extract_clean_additional_info(ls, used) ==
    Extracted(ls, AscSeq({i \in 1..Len(ls) : i \notin used /\ LineFacts[ls[i]].additional}))

\* a ResumeSection; confidence in hundredths; idx records the lines it was joined from
ResumeSection(type, title, ex, confidence) ==
    [type |-> type, title |-> title, content |-> ex.content,
     confidence |-> confidence, idx |-> ex.idx]

\* Python: lines[a:b], as the (1-based) indices a+1..min(b, len)
LineSlice(ls, a, b) == AscSeq({i \in 1..Len(ls) : a < i /\ i <= b})

\* mutant: the personal chunk is emitted only when the document fills it
create_basic_sections_full_chunk(ls) ==
    LET total_lines == Len(ls)
        personal_end == Min(Max(5, total_lines \div 5), 10)
    IN  IF total_lines >= personal_end
        THEN <<ResumeSection("personal", "Personal Information",
                             Extracted(ls, LineSlice(ls, 0, personal_end)), 80)>>
        ELSE <<>>

create_basic_sections(ls) ==
    LET total_lines == Len(ls)
        personal_end == Min(Max(5, total_lines \div 5), 10)
        exp_start == personal_end
        \* int(total_lines * 0.6)
        exp_end == Min(total_lines, exp_start + (total_lines * 6) \div 10)
        personal == IF personal_end > 0
                    THEN <<ResumeSection("personal", "Personal Information",
                                         Extracted(ls, LineSlice(ls, 0, personal_end)), 80)>>
                    ELSE <<>>
        experience == IF exp_end > exp_start
                      THEN <<ResumeSection("experience", "Work Experience",
                                           Extracted(ls, LineSlice(ls, exp_start, exp_end)), 70)>>
                      ELSE <<>>
        skills == IF exp_end < total_lines
                  THEN <<ResumeSection("skills", "Skills & Additional Information",
                                       Extracted(ls, LineSlice(ls, exp_end, total_lines)), 70)>>
                  ELSE <<>>
    IN  personal \o experience \o skills

---------------------------------------------------------------------------
(* DocumentParser.parse_resume_text and _create_structured_resume, pass by pass *)

NoOutcome == [kind |-> "none"]
NoResult == [kind |-> "none"]

\* no service is running
ServiceIdle == analyzer = "unset" /\ running = 0 /\ requests = <<>>
ServiceUnchanged == UNCHANGED <<analyzer, running, requests>>

SegVarsIdle ==
    /\ ServiceIdle
    /\ api_key_arg = "" /\ env_key = "" /\ api_key = ""
    /\ outcome = NoOutcome /\ model_calls = 0 /\ result = NoResult /\ returned_by = "none"

\* extract_text_from_pdf/docx/txt return text.strip()
ExtractedTexts == {Strip(Join("\n", d)) : d \in RawDocs}

SegInit ==
    /\ sys = "segmenter"
    /\ pc = "parse"
    /\ raw_text \in ExtractedTexts
    /\ lines = <<>>
    /\ used_lines = {}
    /\ sections = <<>>
    /\ SegVarsIdle

SegUnchanged ==
    /\ ServiceUnchanged
    /\ UNCHANGED <<sys, raw_text, api_key_arg, env_key, api_key, outcome, model_calls,
                    result, returned_by>>

\* lines = [line.strip() for line in text.split('\n') if line.strip()]
NonBlankLines(text) ==
    LET parts == Split(text, "\n")
        kept == SelectSeq(parts, LAMBDA l : Strip(l) # "")
    IN  [k \in 1..Len(kept) |-> Strip(kept[k])]

parse_resume_text ==
    /\ sys = "segmenter" /\ pc = "parse"
    /\ lines' = NonBlankLines(raw_text)
    /\ pc' = IF lines' = <<>> THEN "done" ELSE "personal"
    /\ UNCHANGED <<used_lines, sections>>
    /\ SegUnchanged

\* if content: sections.append(ResumeSection(...)); used_lines.update(indices)
Claim(type, title, confidence, ex, next) ==
    /\ IF ex.content # ""
       THEN /\ sections' = Append(sections, ResumeSection(type, title, ex, confidence))
            /\ used_lines' = used_lines \cup Range(ex.idx)
       ELSE UNCHANGED <<sections, used_lines>>
    /\ pc' = next
    /\ UNCHANGED lines
    /\ SegUnchanged

PersonalPass ==
    /\ sys = "segmenter" /\ pc = "personal"
    /\ Claim("personal", "Personal Information", 90,
             extract_personal_info_with_tracking(lines), "summary")

SummaryPass ==
    /\ sys = "segmenter" /\ pc = "summary"
    /\ Claim("summary", "Professional Summary", 90,
             extract_summary_with_tracking(lines, used_lines), "experience")

\* mutant: the experience section is appended without used_lines.update(...)
ExperiencePassUntracked ==
    /\ sys = "segmenter" /\ pc = "experience"
    /\ LET ex == extract_all_experience(lines, used_lines)
       IN  sections' = IF ex.content # ""
                       THEN Append(sections, ResumeSection("experience", "Work Experience",
                                                           ex, 90))
                       ELSE sections
    /\ pc' = "education"
    /\ UNCHANGED <<lines, used_lines>>
    /\ SegUnchanged

ExperiencePass ==
    /\ sys = "segmenter" /\ pc = "experience"
    /\ Claim("experience", "Work Experience", 90,
             extract_all_experience(lines, used_lines), "education")

EducationPass ==
    /\ sys = "segmenter" /\ pc = "education"
    /\ Claim("education", "Education", 90,
             extract_education_with_tracking(lines, used_lines), "skills")

SkillsPass ==
    /\ sys = "segmenter" /\ pc = "skills"
    /\ Claim("skills", "Technical Skills", 90,
             extract_skills_with_tracking(lines, used_lines), "projects")

ProjectsPass ==
    /\ sys = "segmenter" /\ pc = "projects"
    /\ Claim("projects", "Projects", 90,
             extract_projects_with_tracking(lines, used_lines), "education_salvage")

HasType(secs, type) == \E k \in 1..Len(secs) : secs[k].type = type

Skip(next) ==
    /\ pc' = next
    /\ UNCHANGED <<lines, sections, used_lines>>
    /\ SegUnchanged

\* mutant: the salvage of education runs without the test for an education section
EducationSalvageAlways ==
    /\ sys = "segmenter" /\ pc = "education_salvage"
    /\ Claim("education", "Education", 80,
             extract_education_from_remaining(lines, used_lines), "skills_salvage")

EducationSalvage ==
    /\ sys = "segmenter" /\ pc = "education_salvage"
    /\ IF ~HasType(sections, "education")
       THEN Claim("education", "Education", 80,
                  extract_education_from_remaining(lines, used_lines), "skills_salvage")
       ELSE Skip("skills_salvage")

SkillsSalvage ==
    /\ sys = "segmenter" /\ pc = "skills_salvage"
    /\ IF ~HasType(sections, "skills")
       THEN Claim("skills", "Technical Skills", 80,
                  extract_skills_from_remaining(lines, used_lines), "additional")
       ELSE Skip("additional")

\* the additional pass returns its content only: used_lines is not updated
AdditionalPass ==
    /\ sys = "segmenter" /\ pc = "additional"
    /\ LET ex == extract_clean_additional_info(lines, used_lines)
       IN  sections' = IF ex.content # ""
                       THEN Append(sections, ResumeSection("additional",
                                       "Additional Information", ex, 80))
                       ELSE sections
    /\ pc' = "return"
    /\ UNCHANGED <<lines, used_lines>>
    /\ SegUnchanged

\* return sections if sections else self._create_basic_sections(lines)
ReturnSections ==
    /\ sys = "segmenter" /\ pc = "return"
    /\ sections' = IF sections # <<>> THEN sections ELSE create_basic_sections(lines)
    /\ pc' = "done"
    /\ UNCHANGED <<lines, used_lines>>
    /\ SegUnchanged

SegNext ==
    \/ parse_resume_text
    \/ PersonalPass
    \/ SummaryPass
    \/ ExperiencePass
    \/ EducationPass
    \/ SkillsPass
    \/ ProjectsPass
    \/ EducationSalvage
    \/ SkillsSalvage
    \/ AdditionalPass
    \/ ReturnSections

SegSpec == SegInit /\ [][SegNext]_vars

---------------------------------------------------------------------------
(* Properties of the segmenter *)

Owned(sec) == Range(sec.idx)

\* C1: the sections own pairwise disjoint sets of line indices, after every pass
\* and in the list that is returned (structured or position-based).
C1_Disjoint ==
    sys = "segmenter" =>
        \A j, k \in 1..Len(sections) :
            j # k => Owned(sections[j]) \cap Owned(sections[k]) = {}

\* a returned list of four sections, each owning at least one line
C1_Witness ==
    /\ sys = "segmenter" /\ pc = "done"
    /\ Len(sections) >= 4
    /\ \A k \in 1..Len(sections) : Owned(sections[k]) # {}

\* no pass claimed a line: the returned list comes from _create_basic_sections
FallbackTaken ==
    /\ pc = "done" /\ lines # <<>>
    /\ used_lines = {}
    /\ ~HasType(sections, "additional")

\* C2: for a non-empty text, parse_resume_text returns at least one section and
\* every returned section has non-empty content; when no pass claimed a line, the
\* list is the position-based one, which starts with the personal chunk of line 1.
C2_Total ==
    (sys = "segmenter" /\ pc = "done" /\ raw_text # "") =>
        /\ Len(sections) >= 1
        /\ \A k \in 1..Len(sections) : sections[k].content # ""
        /\ FallbackTaken =>
              /\ sections[1].type = "personal" /\ sections[1].confidence = 80
              /\ 1 \in Owned(sections[1])

\* a non-empty text for which the fallback supplied two sections
C2_Witness ==
    /\ sys = "segmenter" /\ raw_text # ""
    /\ FallbackTaken
    /\ Len(sections) >= 2

---------------------------------------------------------------------------
(* AIATSScorer (ai_ats_scorer.py): the rule-based scorer *)

CategoryKeys ==
    {"format_structure", "keywords_skills", "experience_relevance", "contact_info",
     "education_credentials"}

ATSScore(overall_score, category_scores, suggestions, strengths) ==
    [overall_score |-> overall_score, category_scores |-> category_scores,
     suggestions |-> suggestions, strengths |-> strengths]

\* mutant: the list is returned whole
TakeAll(xs, n) == xs

\* Python: xs[:n]
Take(xs, n) == SubSeq(xs, 1, Min(n, Len(xs)))

Points(cond, n) == IF cond THEN n ELSE 0

TechKeywords ==
    {"python", "javascript", "react", "node", "sql", "aws", "docker", "git", "java",
     "c++", "html", "css", "api", "rest", "agile", "scrum"}
BusinessKeywords ==
    {"management", "leadership", "strategy", "analysis", "project", "team", "client",
     "sales", "marketing", "operations"}

TimeWords == {"years", "year", "months", "2020", "2021", "2022", "2023", "2024"}
ActionVerbs ==
    {"led", "managed", "developed", "created", "implemented", "designed", "improved",
     "increased", "delivered", "built"}
QuantityChars == {"%", "$", "#"}
QuantityWords == {"million", "thousand", "percent", "increased", "reduced", "improved"}

\* mutant: every test is worth 9 points
experience_points_generous(exp_content) ==
    Points(ContainsAny(TimeWords, exp_content), 9)
    + Points(ContainsAny(ActionVerbs, exp_content), 9)
    + Points(ContainsAny(QuantityChars, exp_content)
             \/ ContainsAny(QuantityWords, exp_content), 9)

\* the three tests on exp_content (already lowercased)
experience_points(exp_content) ==
    Points(ContainsAny(TimeWords, exp_content), 8)
    + Points(ContainsAny(ActionVerbs, exp_content), 8)
    + Points(ContainsAny(QuantityChars, exp_content)
             \/ ContainsAny(QuantityWords, exp_content), 9)

\* the four tests on contact_content (already lowercased)
contact_points(contact_content) ==
    Points(Contains("@", contact_content) /\ Contains(".", contact_content), 8)
    + Points(ContainsAny({"+", "(", "-"}, contact_content)
             \/ Contains("phone", contact_content), 8)
    + Points(Contains("linkedin", contact_content), 5)
    + Points(ContainsAny({"github", "portfolio", "website"}, contact_content), 4)

\* the tests on edu_content (already lowercased)
education_points(edu_content) ==
    (IF ContainsAny({"bachelor", "master", "phd", "doctorate"}, edu_content) THEN 15
     ELSE IF ContainsAny({"associate", "diploma", "certificate"}, edu_content) THEN 10
     ELSE 0)
    + Points(ContainsAny({"university", "college", "institute"}, edu_content), 5)
    + Points(ContainsAny({"gpa", "honors", "magna", "summa", "dean"}, edu_content), 5)

SuggestContact ==
    "Add complete contact information including professional email, phone number, and LinkedIn profile"
SuggestKeywords ==
    "Include more industry-relevant keywords and technical skills to improve ATS compatibility"
SuggestExperience ==
    "Add quantifiable achievements with specific metrics (e.g., 'Increased sales by 25%', 'Led team of 8')"
SuggestFormat ==
    "Improve resume structure with clear section headers and consistent formatting"

StrengthContact == "Complete and professional contact information"
StrengthExperience == "Strong work experience with quantifiable achievements"
StrengthKeywords == "Good technical and industry keyword coverage"
StrengthFormat == "Well-structured and organized resume format"

AdditionalSuggestions ==
    <<"Use action verbs to start bullet points in your experience section",
      "Tailor your resume keywords to match specific job descriptions",
      "Consider adding a professional summary highlighting your key strengths",
      "Include relevant certifications or professional development courses">>

GenericStrengths == <<"Professional resume structure", "Clear section organization">>

\* mutant: the break follows the first append, whatever the length
pad_suggestions_once(suggestions, k) ==
    IF Len(AdditionalSuggestions) < k THEN suggestions
    ELSE Append(suggestions,
                AdditionalSuggestions[CHOOSE j \in k..Len(AdditionalSuggestions) :
                                          /\ AdditionalSuggestions[j] \notin Range(suggestions)
                                          /\ \A i \in k..(j - 1) :
                                                 AdditionalSuggestions[i] \in Range(suggestions)])

RECURSIVE pad_suggestions(_, _)
\* for suggestion in additional_suggestions: append when new, break at 4
pad_suggestions(suggestions, k) ==
    IF k > Len(AdditionalSuggestions) THEN suggestions
    ELSE IF AdditionalSuggestions[k] \in Range(suggestions)
    THEN pad_suggestions(suggestions, k + 1)
    ELSE LET more == Append(suggestions, AdditionalSuggestions[k])
         IN  IF Len(more) >= 4 THEN more ELSE pad_suggestions(more, k + 1)

When(cond, x) == IF cond THEN <<x>> ELSE <<>>

\* mutant: the total is returned as summed
unclamped_overall(overall_score) == overall_score

\* min(100, overall_score)
clamped_overall(overall_score) == Min(100, overall_score)

\* mutant: the suggestions are cut to three entries, like the strengths
score_from_categories_three_suggestions(category_scores) ==
    LET overall_score ==
            category_scores["format_structure"] + category_scores["keywords_skills"]
            + category_scores["experience_relevance"] + category_scores["contact_info"]
            + category_scores["education_credentials"]
        targeted ==
            When(category_scores["contact_info"] < 15, SuggestContact)
            \o When(category_scores["keywords_skills"] < 15, SuggestKeywords)
            \o When(category_scores["experience_relevance"] < 15, SuggestExperience)
            \o When(category_scores["format_structure"] < 15, SuggestFormat)
        found ==
            When(category_scores["contact_info"] >= 20, StrengthContact)
            \o When(category_scores["experience_relevance"] >= 20, StrengthExperience)
            \o When(category_scores["keywords_skills"] >= 20, StrengthKeywords)
            \o When(category_scores["format_structure"] >= 20, StrengthFormat)
        suggestions == IF Len(targeted) < 3 THEN pad_suggestions(targeted, 1) ELSE targeted
        strengths == IF found = <<>> THEN GenericStrengths ELSE found
    IN  ATSScore(clamped_overall(overall_score), category_scores,
                 Take(suggestions, 3), Take(strengths, 3))

\* the suggestions, strengths and overall score computed from the category scores
score_from_categories(category_scores) ==
    LET overall_score ==
            category_scores["format_structure"] + category_scores["keywords_skills"]
            + category_scores["experience_relevance"] + category_scores["contact_info"]
            + category_scores["education_credentials"]
        targeted ==
            When(category_scores["contact_info"] < 15, SuggestContact)
            \o When(category_scores["keywords_skills"] < 15, SuggestKeywords)
            \o When(category_scores["experience_relevance"] < 15, SuggestExperience)
            \o When(category_scores["format_structure"] < 15, SuggestFormat)
        found ==
            When(category_scores["contact_info"] >= 20, StrengthContact)
            \o When(category_scores["experience_relevance"] >= 20, StrengthExperience)
            \o When(category_scores["keywords_skills"] >= 20, StrengthKeywords)
            \o When(category_scores["format_structure"] >= 20, StrengthFormat)
        suggestions == IF Len(targeted) < 3 THEN pad_suggestions(targeted, 1) ELSE targeted
        strengths == IF found = <<>> THEN GenericStrengths ELSE found
    IN  ATSScore(clamped_overall(overall_score), category_scores,
                 Take(suggestions, 4), Take(strengths, 3))

\* the return of the `except Exception` of _enhanced_fallback_analysis
ConstantScore ==
    ATSScore(70,
             [format_structure |-> 15, keywords_skills |-> 15, experience_relevance |-> 15,
              contact_info |-> 12, education_credentials |-> 13],
             <<"Optimize resume format for better ATS compatibility",
               "Include more relevant industry keywords and technical skills",
               "Add quantifiable achievements to your experience section",
               "Ensure all contact information is complete and professional">>,
             GenericStrengths)

\* a list element without the attributes of ResumeSection: reading one raises
Malformed(section) == ~({"title", "content", "type"} \subseteq DOMAIN section)

First(secs, type) ==
    secs[CHOOSE k \in 1..Len(secs) :
            secs[k].type = type /\ \A j \in 1..(k - 1) : secs[j].type # type]

---------------------------------------------------------------------------
(* The section lists the scorers are run on *)

MaxSeq == 2    \* longest list built from every combination of SectionPool entries
MaxPad == 3    \* most "other" sections appended to a list

Sec(type, title, content) == [type |-> type, title |-> title, content |-> content]

PersonalVariants ==
    {Sec("personal", "Personal Information", "John Doe\njohn@example.com\n555-123-4567"),
     Sec("personal", "Contact",
         "Jane Roe\nEmail: jane@mail.io | +1 (555) 010 | linkedin.com/in/jane | github.com/jane"),
     Sec("personal", "Personal Information", "Jane Roe")}
SummaryVariants ==
    {Sec("summary", "Professional Summary",
         "Seasoned leader with strategy, analysis and marketing focus"),
     Sec("objective", "Objective", "Seeking a role in operations")}
ExperienceVariants ==
    {Sec("experience", "Work Experience", "Led a team of 8 and increased sales by 25% in 2021"),
     Sec("experience", "Work Experience", "Managed client accounts for 3 years"),
     Sec("experience", "Career", "Helped at a shop")}
EducationVariants ==
    {Sec("education", "Education", "Bachelor degree in Science, State University, GPA 3.9 with honors"),
     Sec("education", "Education", "Diploma in arts"),
     Sec("education", "Schools", "High school")}
SkillsVariants ==
    {Sec("skills", "Technical Skills",
         "Python JavaScript React Node SQL AWS Docker Git Java HTML CSS REST API Agile Scrum"),
     Sec("skills", "Skills", "Python, SQL, Docker")}
OtherSection == Sec("other", "Additional Information", "Hobbies: chess")

LongWords == 101    \* words of the long section
RECURSIVE Repeat(_, _)
Repeat(s, n) ==
    IF n = 0 THEN "" ELSE IF n = 1 THEN s
    ELSE Repeat(s, n \div 2) \o Repeat(s, n - n \div 2)
LongSection == Sec("other", "Publications", Repeat("a ", LongWords))
MalformedSection == [title |-> "Broken"]

SectionPool ==
    PersonalVariants \cup SummaryVariants \cup ExperienceVariants \cup EducationVariants
    \cup SkillsVariants \cup {OtherSection, LongSection, MalformedSection}

Opt(S) == {<<>>} \cup {<<x>> : x \in S}

\* at most one section of each type, in the segmenter's order
CanonicalLists ==
    {p \o s \o e \o d \o k \o o :
        p \in Opt(PersonalVariants), s \in Opt(SummaryVariants),
        e \in Opt(ExperienceVariants), d \in Opt(EducationVariants),
        k \in Opt(SkillsVariants), o \in Opt({OtherSection, LongSection})}

PaddedLists ==
    {l \o [i \in 1..n |-> OtherSection] :
        l \in {c \in CanonicalLists : Len(c) = 6}, n \in 1..MaxPad}

SectionLists == CanonicalLists \cup PaddedLists \cup SeqsUpTo(SectionPool, MaxSeq)

\* the few lists used when the model's reply is what varies
FewSectionLists ==
    {<<>>,
     <<Sec("personal", "Personal Information", "John Doe\njohn@example.com\n555-123-4567"),
       Sec("experience", "Work Experience", "Managed client accounts for 3 years")>>}

---------------------------------------------------------------------------
(* OllamaResumeAnalyzer (ollama_resume_analyzer.py): the rule-based section   *)
(* extraction of the live service                                             *)

OllamaSection(type, title, content, confidence) ==
    [type |-> type, title |-> title, content |-> content, confidence |-> confidence]

OllamaHeaderKeywords ==
    {"OBJECTIVE", "SUMMARY", "EXPERIENCE", "WORK", "EMPLOYMENT", "EDUCATION", "SKILLS",
     "PROJECTS", "ACHIEVEMENTS", "CERTIFICATIONS"}

\* OllamaResumeAnalyzer._classify_section_type
ollama_classify_section_type(header) ==
    Bind(Lower(header), LAMBDA header_lower :
        IF ContainsAny({"objective", "summary", "profile"}, header_lower) THEN "summary"
        ELSE IF ContainsAny({"experience", "work", "employment", "career"}, header_lower)
        THEN "experience"
        ELSE IF ContainsAny({"education", "academic", "degree"}, header_lower)
        THEN "education"
        ELSE IF ContainsAny({"skills", "technical", "competencies"}, header_lower)
        THEN "skills"
        ELSE IF ContainsAny({"projects", "portfolio"}, header_lower) THEN "projects"
        ELSE "other")

\* Python: '\n'.join(ls[a:b]).strip(), a and b counted from 0
JoinedSlice(ls, a, b) ==
    LET last == Min(b, Len(ls))
    IN  Strip(Join("\n", [k \in 1..Max(0, last - a) |-> ls[a + k]]))

\* the sections between consecutive header lines; a header without content is dropped
RECURSIVE header_sections(_, _, _)
header_sections(ls, headers, i) ==
    IF i > Len(headers) THEN <<>>
    ELSE LET start_idx == headers[i]        \* line_idx + 1, counted from 0
             end_idx == IF i < Len(headers) THEN headers[i + 1] - 1 ELSE Len(ls)
         IN  Bind(Strip(ls[headers[i]]), LAMBDA header :
             Bind(JoinedSlice(ls, start_idx, end_idx), LAMBDA content :
                 (IF content # ""
                  THEN <<OllamaSection(ollama_classify_section_type(header), header,
                                       content, 80)>>
                  ELSE <<>>)
                 \o header_sections(ls, headers, i + 1)))

\* the 15% / 60% / 25% split of a text without header lines
percentage_sections(ls) ==
    LET total_lines == Len(ls)
        personal_end == Max(5, (total_lines * 15) \div 100)
        exp_start == personal_end
        exp_end == exp_start + (total_lines * 6) \div 10
    IN  Bind(JoinedSlice(ls, 0, personal_end), LAMBDA personal_content :
        Bind(JoinedSlice(ls, exp_start, exp_end), LAMBDA exp_content :
        Bind(JoinedSlice(ls, exp_end, total_lines), LAMBDA skills_content :
            (IF personal_content # ""
             THEN <<OllamaSection("personal", "Personal Information", personal_content, 70)>>
             ELSE <<>>)
            \o (IF exp_content # ""
                THEN <<OllamaSection("experience", "Work Experience", exp_content, 60)>>
                ELSE <<>>)
            \o (IF skills_content # ""
                THEN <<OllamaSection("skills", "Skills & Additional Information",
                                     skills_content, 60)>>
                ELSE <<>>))))

\* OllamaResumeAnalyzer._fallback_section_extraction
fallback_section_extraction(text) ==
    Bind(Split(text, "\n"), LAMBDA ls :
    Bind(AscSeq({i \in 1..Len(ls) :
                    Bind(Strip(ls[i]), LAMBDA line_clean :
                        /\ Len(line_clean) < 50
                        /\ ContainsAny(OllamaHeaderKeywords, Upper(line_clean)))}),
         LAMBDA section_headers :
        IF section_headers # <<>> THEN header_sections(ls, section_headers, 1)
        ELSE percentage_sections(ls)))

\* the decoded texts of the uploads the service is run on
ServiceTexts ==
    {"", "  \n \n",
     "John Doe\njohn@example.com\n\nEXPERIENCE\nBuilt scalable systems.\n\nSKILLS\nPython, SQL, Docker\n",
     "Jane Roe\nphone 555 010\nLoves chess",
     "Jane Roe\nphone 555 010\nb\nc\nd\ne\nf\ng\nh\ni",
     "John Doe\njohn@example.com\nEXPERIENCE"}

\* the section lists the model reports in the replies the service is run on
ReportedSectionLists ==
    {<<>>,
     <<OllamaSection("personal", "Personal Information", "John Doe", 90),
       OllamaSection("skills", "Skills", "Python", 90)>>,
     <<OllamaSection("other", "Unknown Section", "", 90)>>}

ServiceSectionLists ==
    {fallback_section_extraction(Strip(t)) : t \in ServiceTexts} \cup ReportedSectionLists

ServiceSections == UNION {Range(l) : l \in ServiceSectionLists}

\* the contents of the sections the segmenter returns for Scenario A
ScenarioAContents ==
    {"John Doe\njohn@example.com\n555-123-4567\nSoftware Engineer at Acme Corp 2020-Present\nBachelor of Science, State University, 2019",
     "EXPERIENCE\nBuilt scalable systems.", "Python, SQL, Docker", "EDUCATION"}

ContentPool ==
    {x.content : x \in SectionPool \ {MalformedSection}}
    \cup {x.content : x \in ServiceSections} \cup ScenarioAContents

\* section.content.lower(), evaluated once per content of the pool
LowerContent == [c \in ContentPool |-> Lower(c)]

\* what the rule-based scorer reads off a content, evaluated once per content
ContentFacts ==
    [c \in ContentPool |->
        [words      |-> WordCount(c),
         keywords   |-> {k \in TechKeywords \cup BusinessKeywords :
                            Contains(k, LowerContent[c])},
         experience |-> experience_points(LowerContent[c]),
         contact    |-> contact_points(LowerContent[c]),
         education  |-> education_points(LowerContent[c])]]

\* the category scores of _enhanced_fallback_analysis, for well-formed sections
category_scores_of(secs) ==
    LET section_types == {secs[k].type : k \in 1..Len(secs)}
        \* the keywords found in all_text: no keyword holds a space, so a keyword is in
        \* the ' '.join of the contents exactly when it is in one of them
        in_all_text == UNION {ContentFacts[secs[k].content].keywords : k \in 1..Len(secs)}
    IN  [format_structure |->
            Points("personal" \in section_types, 8)
            + Points(section_types \cap {"summary", "objective"} # {}, 7)
            + Points(4 <= Len(secs) /\ Len(secs) <= 8, 10),
         keywords_skills |->
            Points("skills" \in section_types
                   /\ ContentFacts[First(secs, "skills").content].words > 10, 15)
            + Min(10, Cardinality(in_all_text)),
         experience_relevance |->
            IF "experience" \in section_types
            THEN ContentFacts[First(secs, "experience").content].experience ELSE 0,
         contact_info |->
            IF "personal" \in section_types
            THEN ContentFacts[First(secs, "personal").content].contact ELSE 0,
         education_credentials |->
            IF "education" \in section_types
            THEN ContentFacts[First(secs, "education").content].education ELSE 0]

\* what a call that raised leaves behind
Raised == [kind |-> "raised"]
Raise == [raised |-> TRUE, score |-> Raised]
Return(score) == [raised |-> FALSE, score |-> score]

\* the try block of _enhanced_fallback_analysis: reading an attribute a section
\* lacks raises, anything else returns the computed score
rule_based_analysis(secs) ==
    IF \E k \in 1..Len(secs) : Malformed(secs[k]) THEN Raise
    ELSE Return(score_from_categories(category_scores_of(secs)))

\* mutant: the exception of the rule-based computation is not caught
enhanced_fallback_analysis_uncaught(secs) ==
    LET r == rule_based_analysis(secs)
    IN  IF r.raised THEN [score |-> Raised, by |-> "raised"]
        ELSE [score |-> r.score, by |-> "rule_based"]

\* AIATSScorer._enhanced_fallback_analysis: [score, by], by naming the return taken
enhanced_fallback_analysis(secs) ==
    LET r == rule_based_analysis(secs)
    IN  IF r.raised THEN [score |-> ConstantScore, by |-> "constant"]
        ELSE [score |-> r.score, by |-> "rule_based"]

---------------------------------------------------------------------------
(* AIATSScorer.analyze_resume: reading the model's reply *)

CategoryOrder ==
    <<"format_structure", "keywords_skills", "experience_relevance", "contact_info",
      "education_credentials">>

\* the defaults of the .get calls of the sanitising return
DefaultCategory ==
    [format_structure |-> 15, keywords_skills |-> 15, experience_relevance |-> 15,
     contact_info |-> 12, education_credentials |-> 13]
DefaultSuggestions ==
    <<"Add more quantifiable achievements with specific metrics",
      "Include more industry-specific keywords and technical skills",
      "Ensure all contact information is complete and professional",
      "Use action verbs to start each bullet point in experience section">>

\* Python: d.get(key, default), default given as a JSON value
GetOr(obj, key, default) == IF HasKey(obj, key) THEN Get(obj, key) ELSE default

StrList(xs) == JList([k \in 1..Len(xs) |-> JStr(xs[k])])
IsStrList(v) == v.t = "list" /\ \A k \in 1..Len(v.v) : v.v[k].t = "str"
Strings(v) == [k \in 1..Len(v.v) |-> v.v[k].v]

\* mutant: the value is passed through
NoClamp(lo, hi, n) == n

\* max(lo, min(hi, n))
Clamp(lo, hi, n) == Max(lo, Min(hi, n))

\* the sanitising return of analyze_resume. min/max of a non-number, .get on a
\* non-object, slicing a non-sequence and the validation of ATSScore raise; a list
\* with entries that are not strings is not among the replies of the model
sanitized_response(ai_analysis) ==
    LET overall == GetOr(ai_analysis, "overall_score", JInt(70))
        cats == GetOr(ai_analysis, "category_scores", JObj(<<>>))
        cat(key) == GetOr(cats, key, JInt(DefaultCategory[key]))
        suggestions == GetOr(ai_analysis, "suggestions", StrList(DefaultSuggestions))
        strengths == GetOr(ai_analysis, "strengths", StrList(GenericStrengths))
        well_typed ==
            /\ overall.t = "int"
            /\ cats.t = "obj"
            /\ \A key \in CategoryKeys : cat(key).t = "int"
            /\ IsStrList(suggestions)
            /\ IsStrList(strengths)
    IN  IF ~well_typed THEN Raise
        ELSE Return(ATSScore(Clamp(0, 100, overall.v),
                             [key \in CategoryKeys |-> Clamp(0, 25, cat(key).v)],
                             Take(Strings(suggestions), 4),
                             Take(Strings(strengths), 3)))

\* mutant: a reply without a JSON object is answered with the defaults
parse_ai_response_lenient(ai_response) ==
    Bind(json_match(ai_response), LAMBDA json_str :
    Bind(json_loads(json_str), LAMBDA ai_analysis :
        IF json_str = "" \/ ai_analysis = JInvalid THEN sanitized_response(JObj(<<>>))
        ELSE sanitized_response(ai_analysis)))

\* the inner try of analyze_resume: no match, a JSONDecodeError and every exception
\* of the sanitising return end in the fall-through to the rule-based analysis
parse_ai_response(ai_response) ==
    Bind(json_match(ai_response), LAMBDA json_str :
    Bind(json_loads(json_str), LAMBDA ai_analysis :
        IF json_str = "" \/ ai_analysis = JInvalid THEN Raise
        ELSE sanitized_response(ai_analysis)))

---------------------------------------------------------------------------
(* OllamaResumeAnalyzer: score_ats_with_ollama and _fallback_ats_scoring *)

OllamaDefaultCategory ==
    [format_structure |-> 18, keywords_skills |-> 16, experience_relevance |-> 20,
     contact_info |-> 12, education_credentials |-> 9]
OllamaDefaultSuggestions ==
    <<"Optimize resume format for better ATS compatibility",
      "Include more industry-specific keywords",
      "Add quantifiable achievements to experience",
      "Ensure contact information is complete">>

\* Python: bool(v) of a parsed JSON value; None when parsing failed
Truthy(v) ==
    CASE v.t = "invalid" -> FALSE
      [] v.t = "null" -> FALSE
      [] v.t = "bool" -> v.v
      [] v.t = "int" -> v.v # 0
      [] v.t = "str" -> v.v # ""
      [] v.t = "list" -> v.v # <<>>
      [] v.t = "obj" -> v.v # <<>>

\* a JSON object of integers as the dict it is
DictOf(obj) == [key \in {obj.v[k][1] : k \in 1..Len(obj.v)} |-> Get(obj, key).v]
IsIntDict(v) == v.t = "obj" /\ \A k \in 1..Len(v.v) : v.v[k][2].t = "int"
AsJson(dict) == [t |-> "dict", v |-> dict]

\* the three strategies, each tried while parsed_data is falsy
ollama_parsed_data(response_text) ==
    Bind(json_loads(response_text), LAMBDA direct :
    Bind(IF Truthy(direct) THEN direct
         ELSE Bind(json_match(response_text), LAMBDA json_str :
              Bind(json_loads(json_str), LAMBDA found :
                  IF json_str # "" /\ found # JInvalid THEN found ELSE direct)),
         LAMBDA by_regex :
        IF Truthy(by_regex) THEN by_regex
        ELSE Bind(Strip(RemoveAll(RemoveAll(response_text, "~~~json"), "~~~")),
                  LAMBDA clean_text :
             Bind(json_loads(clean_text), LAMBDA cleaned :
                 IF cleaned # JInvalid THEN cleaned ELSE by_regex))))

\* what each strategy of score_ats_with_ollama parses from the response text, JInvalid
\* standing for a failed parse: the text, the span the regex finds, the text without
\* the code fences
strategy_values(response_text) ==
    <<json_loads(response_text),
      IF json_match(response_text) = "" THEN JInvalid
      ELSE json_loads(json_match(response_text)),
      json_loads(Strip(RemoveAll(RemoveAll(response_text, "~~~json"), "~~~")))>>

\* the strategies that run: the second and the third one are guarded by
\* `if not parsed_data`, which holds after a failed parse and after a parse that gave
\* an empty, zero, false or null value
strategies_run(response_text) ==
    Bind(strategy_values(response_text), LAMBDA values :
        {1} \cup (IF ~Truthy(values[1]) THEN {2} ELSE {})
            \cup (IF ~Truthy(values[1]) /\ ~Truthy(values[2]) THEN {3} ELSE {}))

\* the return of the `if parsed_data:` branch: the values are taken as reported
ollama_score(parsed_data) ==
    IF parsed_data.t # "obj" THEN Raise
    ELSE
    LET overall == GetOr(parsed_data, "overall_score", JInt(75))
        cats == GetOr(parsed_data, "category_scores", AsJson(OllamaDefaultCategory))
        suggestions == GetOr(parsed_data, "suggestions", StrList(OllamaDefaultSuggestions))
        strengths == GetOr(parsed_data, "strengths", StrList(GenericStrengths))
        well_typed ==
            /\ overall.t = "int"
            /\ cats.t = "dict" \/ IsIntDict(cats)
            /\ IsStrList(suggestions)
            /\ IsStrList(strengths)
    IN  IF ~well_typed THEN Raise
        ELSE Return(ATSScore(overall.v,
                             IF cats.t = "dict" THEN cats.v ELSE DictOf(cats),
                             Take(Strings(suggestions), 4),
                             Take(Strings(strengths), 3)))

TitlePool == {x.title : x \in SectionPool} \cup {x.title : x \in ServiceSections}
LowerTitle == [t \in TitlePool |-> Lower(t)]
TitleFacts ==
    [t \in TitlePool |->
        [experience |-> Contains("experience", LowerTitle[t]) \/ Contains("work", LowerTitle[t]),
         skills     |-> Contains("skill", LowerTitle[t]),
         education  |-> Contains("education", LowerTitle[t])]]
OllamaContentFacts ==
    [c \in ContentPool |->
        [contact |-> Contains("email", LowerContent[c]) \/ Contains("phone", LowerContent[c]),
         degree  |-> Contains("degree", LowerContent[c])]]

RECURSIVE Sum(_)
Sum(ns) == IF ns = <<>> THEN 0 ELSE Head(ns) + Sum(Tail(ns))

OllamaPadding ==
    <<"Use action verbs and quantify achievements where possible",
      "Include industry-specific keywords for better ATS compatibility",
      "Ensure consistent formatting throughout the document",
      "Add relevant certifications or professional development">>

\* what _fallback_ats_scoring finds in the sections
section_findings(secs) ==
    [has_contact |-> \E k \in 1..Len(secs) : OllamaContentFacts[secs[k].content].contact,
     has_experience |-> \E k \in 1..Len(secs) : TitleFacts[secs[k].title].experience,
     has_skills |-> \E k \in 1..Len(secs) : TitleFacts[secs[k].title].skills,
     has_education |->
         \E k \in 1..Len(secs) :
             TitleFacts[secs[k].title].education \/ OllamaContentFacts[secs[k].content].degree,
     total_words |-> Sum([k \in 1..Len(secs) |-> ContentFacts[secs[k].content].words])]

\* the suggestions appended before the padding loop
dynamic_suggestions(found) ==
    When(~found.has_contact,
         "Add complete contact information including email and phone number")
    \o When(~found.has_experience,
            "Include detailed work experience with quantifiable achievements")
    \o When(~found.has_skills,
            "Add a dedicated skills section with relevant technical skills")
    \o When(found.total_words < 200, "Expand content with more detailed descriptions")

\* mutant: the loop body appends nothing and the loop is left at once
ensure_four_unpadded(suggestions, rounds) ==
    [suggestions |-> suggestions, rounds |-> rounds]

\* `while len(suggestions) < 4: suggestions.extend([...])`: the list the loop leaves
\* and the number of times its body ran
RECURSIVE ensure_four(_, _)
ensure_four(suggestions, rounds) ==
    IF Len(suggestions) < 4
    THEN ensure_four(suggestions \o OllamaPadding, rounds + 1)
    ELSE [suggestions |-> suggestions, rounds |-> rounds]

fallback_ats_scoring(secs) ==
    Bind(section_findings(secs), LAMBDA found :
    LET contact_score == IF found.has_contact THEN 13 ELSE 8
        experience_score == IF found.has_experience THEN 22 ELSE 15
        skills_score == IF found.has_skills THEN 18 ELSE 12
        education_score == IF found.has_education THEN 8 ELSE 5
        format_score == IF found.total_words > 100 THEN 20 ELSE 15
        overall_score ==
            contact_score + experience_score + skills_score + education_score + format_score
        suggestions == ensure_four(dynamic_suggestions(found), 0).suggestions
    IN  ATSScore(Min(overall_score, 100),
                 [format_structure |-> format_score, keywords_skills |-> skills_score,
                  experience_relevance |-> experience_score, contact_info |-> contact_score,
                  education_credentials |-> education_score],
                 Take(suggestions, 4),
                 <<"Resume follows standard professional format",
                   "Content is well-organized and readable">>))

\* score_ats_with_ollama from the return of client.generate on: [score, by], by
\* naming the return taken; reply is the outcome of the call
score_ats_with_ollama(secs, reply) ==
    Bind(IF reply.kind = "ok" THEN ollama_parsed_data(Strip(reply.text)) ELSE JInvalid,
         LAMBDA parsed_data :
    Bind(IF Truthy(parsed_data) THEN ollama_score(parsed_data) ELSE Raise,
         LAMBDA scored :
        IF ~scored.raised THEN [score |-> scored.score, by |-> "ollama"]
        ELSE [score |-> fallback_ats_scoring(secs), by |-> "ollama_fallback"]))

\* the `if parsed_data and 'sections' in parsed_data` branch of
\* extract_sections_with_ollama: the sections the reply lists, or an exception.
\* A value that is no dict, a dict without 'sections' and an entry that is no dict
\* all end in the fallback; an empty 'sections' gives the empty list
reported_sections(parsed_data) ==
    IF parsed_data.t # "obj" \/ ~HasKey(parsed_data, "sections") THEN Raise
    ELSE LET listed == Get(parsed_data, "sections")
             text_or_absent(entry, key) == ~HasKey(entry, key) \/ Get(entry, key).t = "str"
         IN  IF listed.t \in {"list", "str", "obj"} /\ Len(listed.v) = 0 THEN Return(<<>>)
             ELSE IF listed.t # "list" THEN Raise
             ELSE IF \E k \in 1..Len(listed.v) :
                        \/ listed.v[k].t # "obj"
                        \/ \E key \in {"type", "title", "content"} :
                               ~text_or_absent(listed.v[k], key)
             THEN Raise
             ELSE Return([k \in 1..Len(listed.v) |->
                            OllamaSection(GetOr(listed.v[k], "type", JStr("other")).v,
                                          GetOr(listed.v[k], "title", JStr("Unknown Section")).v,
                                          GetOr(listed.v[k], "content", JStr("")).v,
                                          90)])

\* extract_sections_with_ollama from the return of client.generate on
extract_sections_with_ollama(text, reply) ==
    Bind(IF reply.kind = "ok" THEN ollama_parsed_data(Strip(reply.text)) ELSE JInvalid,
         LAMBDA parsed_data :
    Bind(reported_sections(parsed_data), LAMBDA listed :
        IF ~listed.raised THEN [sections |-> listed.score, by |-> "ollama"]
        ELSE [sections |-> fallback_section_extraction(text), by |-> "ollama_fallback"]))

---------------------------------------------------------------------------
(* The outcomes of the call to the external model *)

MaxItems == 5    \* most entries of a suggestions or strengths list in a reply

\* a member of the reply: its JSON text and the value it reports; Absent: left out
Absent == [t |-> "absent"]
Field(txt, val) == [txt |-> txt, val |-> val]
NotReported == Field("", Absent)

RECURSIVE MemberTexts(_)
MemberTexts(members) ==
    IF members = <<>> THEN <<>>
    ELSE (IF Head(members)[2].val = Absent THEN <<>>
          ELSE <<"\"" \o Head(members)[1] \o "\": " \o Head(members)[2].txt>>)
         \o MemberTexts(Tail(members))

RECURSIVE MemberValues(_)
MemberValues(members) ==
    IF members = <<>> THEN <<>>
    ELSE (IF Head(members)[2].val = Absent THEN <<>>
          ELSE <<<<Head(members)[1], Head(members)[2].val>>>>)
         \o MemberValues(Tail(members))

ObjectField(members) ==
    Field("{" \o Join(", ", MemberTexts(members)) \o "}", JObj(MemberValues(members)))

OverallChoices ==
    {NotReported, Field("85", JInt(85)), Field("150", JInt(150)), Field("-20", JInt(-20)),
     Field("0", JInt(0)), Field("\"high\"", JStr("high")), Field("null", JNull)}

CategoryChoices ==
    {NotReported, Field("12", JInt(12)), Field("40", JInt(40)), Field("-3", JInt(-3))}

\* every category reported as 12 but for at most two of them
CategoryObjects ==
    {ObjectField([k \in 1..Len(CategoryOrder) |->
                    <<CategoryOrder[k],
                      IF k = i THEN a ELSE IF k = j THEN b ELSE Field("12", JInt(12))>>]) :
        i \in 1..Len(CategoryOrder), j \in 1..Len(CategoryOrder),
        a \in CategoryChoices, b \in CategoryChoices}

CategoriesChoices ==
    CategoryObjects
    \cup {NotReported, Field("null", JNull), Field("[1, 2]", JList(<<JInt(1), JInt(2)>>))}

Item(stem, k) == stem \o " " \o Char(Digits, k + 1)
ItemsField(stem, n) ==
    Field("[" \o Join(", ", [k \in 1..n |-> "\"" \o Item(stem, k) \o "\""]) \o "]",
          StrList([k \in 1..n |-> Item(stem, k)]))

ListChoices(stem) ==
    {ItemsField(stem, n) : n \in 0..MaxItems}
    \cup {NotReported, Field("null", JNull), Field("\"none\"", JStr("none"))}

\* text around the object; a closing brace after it spoils the match of '\{.*\}'.
\* "~~~" stands for the code fence of three backticks
Prefixes == {"", "Here is the result: ", "~~~json\n"}
Suffixes == {"", "\n~~~", " (see {notes})"}

Reported(overall, cats, strengths, suggestions) ==
    [overall_score |-> overall, category_scores |-> cats, strengths |-> strengths,
     suggestions |-> suggestions]
NothingReported == Reported(Absent, Absent, Absent, Absent)

Failure(kind, code) ==
    [kind |-> kind, code |-> code, text |-> "", recovered |-> FALSE,
     reported |-> NothingReported]

\* status 200 with a text in which no JSON object is found by the scorer
Unreadable(text) ==
    [kind |-> "ok", code |-> 200, text |-> text, recovered |-> FALSE,
     reported |-> NothingReported]

Reply(prefix, overall, cats, strengths, suggestions, suffix) ==
    [kind |-> "ok", code |-> 200,
     text |-> prefix
              \o ObjectField(<<<<"overall_score", overall>>, <<"category_scores", cats>>,
                               <<"strengths", strengths>>, <<"suggestions", suggestions>>>>).txt
              \o suffix,
     recovered |-> ~Contains("}", suffix),
     reported |-> Reported(overall.val, cats.val, strengths.val, suggestions.val)]

\* timeout or network exception, error statuses, status 200 without choices
Failures ==
    {Failure("exception", 0), Failure("status", 401), Failure("status", 429),
     Failure("status", 500), Failure("bad_envelope", 200)}

UnreadableReplies ==
    {Unreadable(""), Unreadable("I cannot score this resume."),
     Unreadable("{\"overall_score\": 85,"), Unreadable("{overall_score: 85}"),
     Unreadable("{\"overall_score\": ~~~150}"), Unreadable("[1, 2]")}

\* replies varying what is reported for the scores
ScoreReplies ==
    {Reply("", o, c, NotReported, NotReported, "") :
        o \in OverallChoices, c \in CategoriesChoices}

\* replies varying the lists and the text around the object
ListReplies ==
    {Reply(pre, Field("150", JInt(150)), NotReported, st, su, suf) :
        pre \in Prefixes, st \in ListChoices("strength"), su \in ListChoices("suggestion"),
        suf \in Suffixes}

SampleReply ==
    Reply("Here is the result: ", Field("150", JInt(150)),
          ObjectField(<<<<"format_structure", Field("40", JInt(40))>>,
                        <<"contact_info", Field("-3", JInt(-3))>>>>),
          ItemsField("strength", 2), ItemsField("suggestion", 4), "")

FewOutcomes == Failures \cup UnreadableReplies \cup {SampleReply}
\* the outcomes every list of sections is scored under
CommonOutcomes ==
    {Failure("exception", 0), Failure("status", 500),
     Unreadable("I cannot score this resume."), SampleReply}
AllOutcomes == FewOutcomes \cup ScoreReplies \cup ListReplies

---------------------------------------------------------------------------
(* The scorers as state machines *)

\* stands for the key written into __init__
DefaultKey == "sk-or-v1-hard-coded"
CallerKeys == {"", "sk-or-v1-caller"}
EnvKeys == {"", "sk-or-v1-env"}

WellFormed(secs) == \A k \in 1..Len(secs) : ~Malformed(secs[k])

ScorerIdle ==
    /\ ServiceIdle
    /\ raw_text = "" /\ lines = <<>> /\ used_lines = {}
    /\ api_key = "" /\ model_calls = 0 /\ result = NoResult /\ returned_by = "none"

ScorerInit ==
    /\ ScorerIdle
    /\ \/ /\ sys = "openrouter" /\ pc = "init"
          /\ \/ /\ sections \in SectionLists /\ outcome \in CommonOutcomes
                /\ api_key_arg = "sk-or-v1-caller" /\ env_key = ""
             \/ /\ sections \in FewSectionLists /\ outcome \in AllOutcomes
                /\ api_key_arg = "" /\ env_key = "sk-or-v1-env"
             \/ /\ sections \in FewSectionLists \cup {<<MalformedSection>>}
                /\ outcome \in FewOutcomes
                /\ api_key_arg \in CallerKeys /\ env_key \in EnvKeys
       \/ /\ sys = "ollama" /\ pc = "score"
          /\ api_key_arg = "" /\ env_key = ""
          /\ \/ /\ sections \in {l \in SectionLists : WellFormed(l)}
                /\ outcome \in {Failure("exception", 0), SampleReply}
             \/ /\ sections \in FewSectionLists /\ outcome \in AllOutcomes

ScorerUnchanged ==
    /\ ServiceUnchanged
    /\ UNCHANGED <<sys, raw_text, lines, used_lines, sections, api_key_arg, env_key, outcome>>

\* mutant: a failed model call sends the scorer back to issue the request again
PcAfterReplyRetries(retry_pc, failed) == IF failed THEN retry_pc ELSE "done"

\* where a scorer goes once the outcome of its model call is handled: both the
\* result built from the reply and the fallback are returned, there is no loop
PcAfterReply(retry_pc, failed) == "done"

\* AIATSScorer.__init__
Construct ==
    /\ sys = "openrouter" /\ pc = "init"
    /\ api_key' = IF api_key_arg # "" THEN api_key_arg
                  ELSE IF env_key # "" THEN env_key
                  ELSE DefaultKey
    /\ pc' = "analyze"
    /\ UNCHANGED <<model_calls, result, returned_by>>
    /\ ScorerUnchanged

\* analyze_resume up to `await client.post(...)`: without a key, or when building
\* the prompt raises, it returns what _enhanced_fallback_analysis returns
AnalyzeResume ==
    /\ sys = "openrouter" /\ pc = "analyze"
    /\ IF api_key = "" \/ ~WellFormed(sections)
       THEN \E fallback \in {enhanced_fallback_analysis(sections)} :
                /\ result' = fallback.score
                /\ returned_by' = fallback.by
                /\ pc' = "done"
                /\ UNCHANGED model_calls
       ELSE /\ model_calls' = model_calls + 1
            /\ pc' = "awaiting"
            /\ UNCHANGED <<result, returned_by>>
    /\ UNCHANGED api_key
    /\ ScorerUnchanged

\* analyze_resume from the completion of the post to its return
ReceiveReply ==
    /\ sys = "openrouter" /\ pc = "awaiting"
    /\ \E parsed \in {IF outcome.kind = "ok" THEN parse_ai_response(outcome.text)
                      ELSE Raise} :
           /\ IF ~parsed.raised
              THEN result' = parsed.score /\ returned_by' = "ai"
              ELSE \E fallback \in {enhanced_fallback_analysis(sections)} :
                       result' = fallback.score /\ returned_by' = fallback.by
           /\ pc' = PcAfterReply("analyze", parsed.raised)
    /\ UNCHANGED <<api_key, model_calls>>
    /\ ScorerUnchanged

\* OllamaResumeAnalyzer.score_ats_with_ollama: client.generate is a blocking call
ScoreAtsWithOllama ==
    /\ sys = "ollama" /\ pc = "score"
    /\ model_calls' = model_calls + 1
    /\ \E scored \in {score_ats_with_ollama(sections, outcome)} :
           /\ result' = scored.score
           /\ returned_by' = scored.by
           /\ pc' = PcAfterReply("score", scored.by = "ollama_fallback")
    /\ UNCHANGED api_key
    /\ ScorerUnchanged

ScorerNext == Construct \/ AnalyzeResume \/ ReceiveReply \/ ScoreAtsWithOllama

ScorerSpec == ScorerInit /\ [][ScorerNext]_vars

---------------------------------------------------------------------------
(* The live service (main.py): start-up and the /analyze-resume handler *)

\* the requests in flight at the same time
Requests == {1, 2}

HTTPException(status_code, detail) == [status_code |-> status_code, detail |-> detail]
NoResponse == [status_code |-> 0, detail |-> ""]

\* Python: s.endswith(suffix)
EndsWith(s, suffix) ==
    Len(s) >= Len(suffix) /\ SubSeq(s, Len(s) - Len(suffix) + 1, Len(s)) = suffix

PdfType == "application/pdf"
DocxType == "application/vnd.openxmlformats-officedocument.wordprocessingml.document"
TxtType == "text/plain"

\* an uploaded file: readable says whether the library of its format can decode it,
\* text is what the decoding gives
Upload(content_type, filename, readable, text) ==
    [content_type |-> content_type, filename |-> filename, readable |-> readable,
     text |-> text]

Uploads ==
    {Upload(TxtType, "cv.txt", TRUE, t) : t \in ServiceTexts}
    \cup {Upload(PdfType, "cv.pdf", FALSE, ""),
          Upload("application/octet-stream", "CV.DOCX", TRUE, "Jane Roe\nphone 555 010\nLoves chess"),
          Upload("image/png", "photo.png", TRUE, "John Doe"),
          Upload(TxtType, "notes.txt", FALSE, "")}

\* the file-type validation of the handlers
supported_file(file) ==
    \/ file.content_type \in {PdfType, DocxType, TxtType}
    \/ \E ext \in {".pdf", ".docx", ".txt"} : EndsWith(Lower(file.filename), ext)

\* DocumentParser.parse_pdf, parse_docx, parse_txt: the stripped text, or 400
parse_format(file, format) ==
    IF file.readable THEN Return(Strip(file.text))
    ELSE [raised |-> TRUE,
          score |-> HTTPException(400, "Failed to parse " \o format \o " file")]

\* DocumentParser.parse_file after `await file.read()`
parse_file(file) ==
    LET filename == Lower(file.filename)
    IN  IF file.content_type = PdfType THEN parse_format(file, "PDF")
        ELSE IF file.content_type = DocxType THEN parse_format(file, "DOCX")
        ELSE IF file.content_type = TxtType THEN parse_format(file, "TXT")
        ELSE IF EndsWith(filename, ".pdf") THEN parse_format(file, "PDF")
        ELSE IF EndsWith(filename, ".docx") THEN parse_format(file, "DOCX")
        ELSE IF EndsWith(filename, ".txt") THEN parse_format(file, "TXT")
        ELSE [raised |-> TRUE, score |-> HTTPException(400, "Unsupported file type")]

\* mutant: the handler answers every exception of its try block with status 500
handler_error_as_500(exc) == HTTPException(500, "Analysis failed: " \o exc.detail)

\* `except HTTPException: raise` of the handler: the exception is the response
handler_error(exc) == exc

\* what the two calls of client.generate of one analysis can end in
ExtractionOutcomes ==
    {Failure("exception", 0),
     Unreadable("I cannot read this resume."),
     Unreadable("{\"sections\": []}"),
     Unreadable("Here you go: {\"sections\": [{\"type\": \"personal\", \"title\": \"Personal Information\", \"content\": \"John Doe\"}, {\"type\": \"skills\", \"title\": \"Skills\", \"content\": \"Python\"}]}"),
     Unreadable("~~~json\n{\"sections\": [{}]}\n~~~")}
ScoringOutcomes ==
    {Failure("exception", 0), Unreadable("I cannot score this resume."), SampleReply}

\* what start-up finds: the Ollama server does not answer, answers without the model,
\* or answers with it
StartUpFindings == {"unreachable", "model_missing", "model_listed"}

NewRequest ==
    [pc |-> "new", file |-> Upload("", "", FALSE, ""), raw_text |-> "", sections |-> <<>>,
     sections_by |-> "none", ats_by |-> "none", model_calls |-> 0, failures |-> {},
     response |-> NoResponse]

Respond(request, response) == [request EXCEPT !.pc = "done", !.response = response]

\* CompleteResumeAnalysis as the body of a 200 response
Analysis(request, ats, ats_by) ==
    [request EXCEPT !.pc = "done", !.ats_by = ats_by,
                    !.response = [status_code |-> 200, detail |-> "",
                                  success |-> TRUE, filename |-> request.file.filename,
                                  sections |-> request.sections, ats_analysis |-> ats,
                                  raw_text |-> request.raw_text]]

ServiceInit ==
    /\ sys = "service" /\ pc = "boot"
    /\ analyzer = "unset" /\ running = 0
    /\ requests = [r \in Requests |-> NewRequest]
    /\ raw_text = "" /\ lines = <<>> /\ used_lines = {} /\ sections = <<>>
    /\ api_key_arg = "" /\ env_key = "" /\ api_key = "" /\ outcome = Failure("none", 0)
    /\ model_calls = 0 /\ result = NoResult /\ returned_by = "none"

\* the service leaves the variables of the other components alone
ServiceFrame ==
    UNCHANGED <<sys, raw_text, lines, used_lines, sections, api_key_arg, env_key, api_key,
                outcome, model_calls, result, returned_by>>

\* module level of main.py: OllamaResumeAnalyzer() raises when client.list() fails,
\* and the except leaves analyzer = None
StartUp ==
    /\ sys = "service" /\ pc = "boot"
    /\ \E found \in StartUpFindings :
           analyzer' = IF found = "unreachable" THEN "none" ELSE "ready"
    /\ pc' = "serving"
    /\ UNCHANGED <<running, requests>>
    /\ ServiceFrame

\* analyze_resume of main.py from its entry to `await file.read()`; the coroutine
\* needs the event loop, which no other coroutine may hold
Accept(r) ==
    /\ sys = "service" /\ pc = "serving" /\ running = 0
    /\ requests[r].pc = "new"
    /\ \E file \in Uploads :
           requests' = [requests EXCEPT ![r] =
               IF analyzer = "none"
               THEN Respond([@ EXCEPT !.file = file, !.failures = {"start_up"}],
                            HTTPException(503, "Ollama analyzer not available"))
               ELSE IF ~supported_file(file)
               THEN Respond([@ EXCEPT !.file = file],
                            HTTPException(400, "Only PDF, DOCX, and TXT files are supported"))
               ELSE [@ EXCEPT !.pc = "reading", !.file = file]]
    /\ UNCHANGED <<pc, analyzer, running>>
    /\ ServiceFrame

\* from the completion of file.read() to the first client.generate, a call that does
\* not return the event loop: the coroutine keeps it until its analysis is over
AfterRead(r) ==
    /\ sys = "service" /\ pc = "serving" /\ running = 0
    /\ requests[r].pc = "reading"
    /\ \E parsed \in {parse_file(requests[r].file)} :
           IF parsed.raised
           THEN /\ requests' = [requests EXCEPT ![r] = Respond(@, handler_error(parsed.score))]
                /\ UNCHANGED running
           ELSE IF Strip(parsed.score) = ""
           THEN /\ requests' = [requests EXCEPT ![r] =
                       Respond(@, handler_error(
                                      HTTPException(400, "No text content found in file")))]
                /\ UNCHANGED running
           ELSE /\ requests' = [requests EXCEPT ![r] =
                       [@ EXCEPT !.pc = "extracting", !.raw_text = parsed.score,
                                 !.model_calls = @ + 1]]
                /\ running' = r
    /\ UNCHANGED <<pc, analyzer>>
    /\ ServiceFrame

\* extract_sections_with_ollama from the return of client.generate, then
\* score_ats_with_ollama up to its own client.generate
ExtractionReturns(r) ==
    /\ sys = "service" /\ pc = "serving" /\ running = r
    /\ requests[r].pc = "extracting"
    /\ \E reply \in ExtractionOutcomes :
       \E extracted \in {extract_sections_with_ollama(requests[r].raw_text, reply)} :
           requests' = [requests EXCEPT ![r] =
               [@ EXCEPT !.pc = "scoring", !.sections = extracted.sections,
                         !.sections_by = extracted.by,
                         !.failures = @ \cup (IF extracted.by = "ollama" THEN {}
                                              ELSE {"extraction"}),
                         !.model_calls = @ + 1]]
    /\ UNCHANGED <<pc, analyzer, running>>
    /\ ServiceFrame

\* score_ats_with_ollama from the return of client.generate, and the return of the
\* handler, which gives the event loop back
ScoringReturns(r) ==
    /\ sys = "service" /\ pc = "serving" /\ running = r
    /\ requests[r].pc = "scoring"
    /\ \E reply \in ScoringOutcomes :
       \E scored \in {score_ats_with_ollama(requests[r].sections, reply)} :
           requests' = [requests EXCEPT ![r] =
               Analysis([@ EXCEPT !.failures = @ \cup (IF scored.by = "ollama" THEN {}
                                                       ELSE {"scoring"})],
                        scored.score, scored.by)]
    /\ running' = 0
    /\ UNCHANGED <<pc, analyzer>>
    /\ ServiceFrame

ServiceNext ==
    \/ StartUp
    \/ \E r \in Requests :
           Accept(r) \/ AfterRead(r) \/ ExtractionReturns(r) \/ ScoringReturns(r)

ServiceSpec == ServiceInit /\ [][ServiceNext]_vars

---------------------------------------------------------------------------
(* The live service (main.py): the legacy /ats-score handler *)

\* the names bound at module level of main.py: its imports, its classes and its
\* module-level assignments
MainGlobals ==
    {"FastAPI", "File", "UploadFile", "HTTPException", "CORSMiddleware",
     "StreamingResponse", "Dict", "Any", "List", "BaseModel", "fitz", "Document", "io",
     "chardet", "logging", "asyncio", "OllamaResumeAnalyzer", "CompleteResumeAnalysis",
     "TemplateApplicator", "SimplePDFGenerator", "logger", "app", "analyzer",
     "DocumentParser", "parser", "template_applicator", "pdf_generator",
     "ApplyTemplateRequest"}

\* the exceptions the try block of the handler can raise
HttpError(status_code, detail) ==
    [type |-> "HTTPException", status_code |-> status_code, text |-> detail]
NameError(name) ==
    [type |-> "NameError", status_code |-> 0,
     text |-> "name '" \o name \o "' is not defined"]
TypeError(text) == [type |-> "TypeError", status_code |-> 0, text |-> text]
Throw(exc) == [raised |-> TRUE, score |-> exc]

\* Python: str(e); an HTTPException prints as its status and its detail
exception_str(exc) ==
    IF exc.type = "HTTPException" /\ exc.status_code = 400 THEN "400: " \o exc.text
    ELSE exc.text

\* `for section in sections_data`: the members visited (the entries of a list, the
\* characters of a string, the keys of a dict), or the TypeError of a value that
\* cannot be iterated
iterate(value) ==
    CASE value.t = "list" -> Return(value.v)
      [] value.t = "str" -> Return([k \in 1..Len(value.v) |-> JStr(SubSeq(value.v, k, k))])
      [] value.t = "obj" -> Return([k \in 1..Len(value.v) |-> JStr(value.v[k][1])])
      [] OTHER -> Throw(TypeError("'" \o value.t \o "' object is not iterable"))

\* section.get(key, default) of a member that is a dict, as the text it holds
text_of(section, key, default) ==
    Bind(GetOr(section, key, JStr(default)), LAMBDA v : IF v.t = "str" THEN v.v ELSE default)

\* the ResumeSection objects built from the members that are dicts
resume_sections(members) ==
    Bind(SelectSeq(members, LAMBDA m : m.t = "obj"), LAMBDA dicts :
        [k \in 1..Len(dicts) |->
            Sec(text_of(dicts[k], "type", "other"), text_of(dicts[k], "title", "Unknown"),
                text_of(dicts[k], "content", ""))])

\* the try block of ats_score_legacy: the score it returns or the exception it
\* raises.  The name ResumeSection is looked up when the first dict is converted
ats_score_try(request, reply) ==
    Bind(GetOr(request, "sections", JList(<<>>)), LAMBDA sections_data :
    IF ~Truthy(sections_data) THEN Throw(HttpError(400, "No sections provided"))
    ELSE Bind(iterate(sections_data), LAMBDA members :
         IF members.raised THEN members
         ELSE IF \E k \in 1..Len(members.score) : members.score[k].t = "obj"
         THEN IF "ResumeSection" \notin MainGlobals THEN Throw(NameError("ResumeSection"))
              ELSE Return(score_ats_with_ollama(resume_sections(members.score), reply).score)
         ELSE Throw(HttpError(400, "No valid sections found"))))

\* ats_score_legacy after its analyzer check: `except Exception` is the only handler
\* of the try block
ats_score_legacy(request, reply) ==
    Bind(ats_score_try(request, reply), LAMBDA tried :
        IF tried.raised
        THEN HTTPException(500, "ATS scoring failed: " \o exception_str(tried.score))
        ELSE [status_code |-> 200, detail |-> "", score |-> tried.score])

SectionDict(type, title, content) ==
    JObj(<<<<"type", JStr(type)>>, <<"title", JStr(title)>>, <<"content", JStr(content)>>>>)

\* the JSON objects posted to /ats-score
LegacyBodies ==
    {JObj(<<>>),
     JObj(<<<<"resume", JStr("John Doe")>>>>),
     JObj(<<<<"sections", JList(<<>>)>>>>),
     JObj(<<<<"sections", JNull>>>>),
     JObj(<<<<"sections", JInt(5)>>>>),
     JObj(<<<<"sections", JStr("ab")>>>>),
     JObj(<<<<"sections", JList(<<JStr("Skills")>>)>>>>),
     JObj(<<<<"sections", JList(<<JInt(1), JStr("Python")>>)>>>>),
     JObj(<<<<"sections", JList(<<JObj(<<>>)>>)>>>>),
     JObj(<<<<"sections", JList(<<SectionDict("skills", "Skills", "Python")>>)>>>>),
     JObj(<<<<"sections", JList(<<JStr("x"), SectionDict("personal", "Personal Information", "John Doe")>>)>>>>)}

\* ats_score_legacy of main.py: the handler holds no await, so it runs from its
\* entry to its response without giving the event loop away
AtsScoreLegacy(r) ==
    /\ sys = "service" /\ pc = "serving" /\ running = 0
    /\ requests[r].pc = "new"
    /\ \E request \in LegacyBodies : \E reply \in ScoringOutcomes :
           requests' = [requests EXCEPT ![r] =
               [pc |-> "done", endpoint |-> "/ats-score", body |-> request,
                response |-> IF analyzer = "none"
                             THEN HTTPException(503, "Ollama analyzer not available")
                             ELSE ats_score_legacy(request, reply)]]
    /\ UNCHANGED <<pc, analyzer, running>>
    /\ ServiceFrame

\* the service with its legacy scoring endpoint alone: the endpoint shares with
\* /analyze-resume the analyzer and the event loop, nothing of a request
LegacyNext == StartUp \/ \E r \in Requests : AtsScoreLegacy(r)

LegacySpec == ServiceInit /\ [][LegacyNext]_vars

---------------------------------------------------------------------------
(* Properties of the scorers, checked under ScorerSpec *)

Returned == pc = "done"
RuleBasedReturned == sys = "openrouter" /\ Returned /\ returned_by \in {"rule_based", "constant"}

CategorySum(category_scores) ==
    category_scores["format_structure"] + category_scores["keywords_skills"]
    + category_scores["experience_relevance"] + category_scores["contact_info"]
    + category_scores["education_credentials"]

\* C3: whatever the sections, a result of _enhanced_fallback_analysis has exactly
\* the five category keys, each an integer in [0,25], and an overall_score in [0,100]
C3_RuleBasedBands ==
    RuleBasedReturned =>
        /\ DOMAIN result.category_scores = CategoryKeys
        /\ \A key \in CategoryKeys : result.category_scores[key] \in 0..25
        /\ result.overall_score \in 0..100

\* every category but education at its maximum, the total at its cap
C3_Witness ==
    /\ RuleBasedReturned /\ returned_by = "rule_based"
    /\ result.category_scores["format_structure"] = 25
    /\ result.category_scores["keywords_skills"] = 25
    /\ result.category_scores["experience_relevance"] = 25
    /\ result.category_scores["contact_info"] = 25
    /\ result.overall_score = 100

\* C4: the overall_score returned by _enhanced_fallback_analysis is
\* min(100, sum of the five category scores it returns)
C4_OverallIsClampedSum ==
    RuleBasedReturned =>
        result.overall_score =
            (IF CategorySum(result.category_scores) > 100 THEN 100
             ELSE CategorySum(result.category_scores))

\* a result whose categories sum to more than 100
C4_Witness ==
    /\ RuleBasedReturned /\ returned_by = "rule_based"
    /\ CategorySum(result.category_scores) > 100

\* C5: every ATSScore returned, by either scorer and on every path, has at most
\* 4 suggestions and at most 3 strengths
C5_ListBounds ==
    (sys \in {"openrouter", "ollama"} /\ Returned) =>
        Len(result.suggestions) <= 4 /\ Len(result.strengths) <= 3

\* the model reported more than 4 suggestions and more than 3 strengths, and its
\* reply was the one returned
C5_Witness ==
    /\ Returned /\ returned_by \in {"ai", "ollama"}
    /\ outcome.reported.suggestions.t = "list" /\ Len(outcome.reported.suggestions.v) > 4
    /\ outcome.reported.strengths.t = "list" /\ Len(outcome.reported.strengths.v) > 3
    /\ Len(result.suggestions) = 4 /\ Len(result.strengths) = 3

IsATSScore(r) ==
    /\ DOMAIN r = {"overall_score", "category_scores", "suggestions", "strengths"}
    /\ r.overall_score \in Int
    /\ \A key \in DOMAIN r.category_scores : r.category_scores[key] \in Int
    /\ \A k \in 1..Len(r.suggestions) : r.suggestions[k] \in STRING
    /\ \A k \in 1..Len(r.strengths) : r.strengths[k] \in STRING

\* C6: analyze_resume never raises: whatever the outcome of the model call, what
\* the caller receives is an ATSScore; when the rule-based computation raises, it
\* is the constant with overall_score 70 and categories 15, 15, 15, 12, 13
C6_NeverRaises ==
    (sys = "openrouter" /\ Returned) =>
        /\ result # Raised
        /\ IsATSScore(result)
        /\ ~WellFormed(sections) =>
            /\ result.overall_score = 70
            /\ result.category_scores =
                   [format_structure |-> 15, keywords_skills |-> 15,
                    experience_relevance |-> 15, contact_info |-> 12,
                    education_credentials |-> 13]

\* the rule-based computation raised and the caller got the constant
C6_Witness ==
    sys = "openrouter" /\ Returned /\ ~WellFormed(sections) /\ returned_by = "constant"

CallFailed ==
    \/ outcome.kind \in {"exception", "status", "bad_envelope"}
    \/ outcome.kind = "ok" /\ ~outcome.recovered

\* C7: when the model call of analyze_resume fails (exception, non-200 status, or a
\* response in which no JSON object is found), the ATSScore returned equals field
\* for field the result of _enhanced_fallback_analysis on the same sections
C7_FallbackOnFailure ==
    (sys = "openrouter" /\ Returned /\ model_calls = 1 /\ CallFailed) =>
        result = enhanced_fallback_analysis(sections).score

\* a call that timed out, answered from the rules with a score of its own
C7_Witness ==
    /\ sys = "openrouter" /\ Returned /\ model_calls = 1
    /\ outcome.kind = "exception"
    /\ returned_by = "rule_based" /\ result.overall_score > 70

InBand(lo, hi, n) == IF n < lo THEN lo ELSE IF n > hi THEN hi ELSE n

\* a JSON object was recovered from the reply of the model
ObjectRecovered ==
    sys = "openrouter" /\ Returned /\ model_calls = 1 /\ outcome.kind = "ok"
    /\ outcome.recovered

\* every reported number is returned clamped into its band
ReportedScoresClamped ==
    /\ outcome.reported.overall_score.t = "int" =>
           result.overall_score = InBand(0, 100, outcome.reported.overall_score.v)
    /\ outcome.reported.category_scores.t = "obj" =>
           \A k \in 1..Len(outcome.reported.category_scores.v) :
               LET member == outcome.reported.category_scores.v[k]
               IN  member[2].t = "int" =>
                       result.category_scores[member[1]] = InBand(0, 25, member[2].v)

\* the fields of the reply have the types the sanitising return and ATSScore accept
ReportWellTyped ==
    /\ outcome.reported.overall_score.t \in {"absent", "int"}
    /\ \/ outcome.reported.category_scores.t = "absent"
       \/ /\ outcome.reported.category_scores.t = "obj"
          /\ \A k \in 1..Len(outcome.reported.category_scores.v) :
                 outcome.reported.category_scores.v[k][2].t = "int"
    /\ outcome.reported.suggestions.t = "absent" \/ IsStrList(outcome.reported.suggestions)
    /\ outcome.reported.strengths.t = "absent" \/ IsStrList(outcome.reported.strengths)

C9_OllamaBands ==
    (sys = "ollama" /\ Returned) =>
        /\ result.overall_score \in 0..100
        /\ \A key \in DOMAIN result.category_scores : result.category_scores[key] \in 0..25

\* C10: with no api_key argument and no OPENROUTER_API_KEY in the environment,
\* analyze_resume issues no call to the model and returns the rule-based result
C10_NoCredentialNoCall ==
    (sys = "openrouter" /\ api_key_arg = "" /\ env_key = "") =>
        /\ model_calls = 0
        /\ Returned => returned_by \in {"rule_based", "constant"}

\* whichever scorer ran, its model call failed or its reply could not be used
ReturnedFromFallback ==
    Returned /\ returned_by \in {"rule_based", "constant", "ollama_fallback"}

\* the model call timed out or raised, answered with an error status, or replied
\* with a text no strategy of the scorer reads a JSON object from
ModelGaveNothing ==
    \/ sys = "openrouter" /\ CallFailed
    \/ sys = "ollama" /\ (outcome.kind # "ok" \/ ~Contains("{", outcome.text))

\* C11: within one scoring call the external model is invoked at most once; after
\* a timeout, an error status or an unparseable response the scorer returns the
\* rule-based fallback with exactly one request issued, never a second one
C11_AtMostOneCall ==
    /\ model_calls <= 1
    /\ (Returned /\ model_calls > 0 /\ ModelGaveNothing) =>
           model_calls = 1 /\ ReturnedFromFallback

\* the Ollama call raised and the fallback answered after the single request
C11_Witness ==
    /\ sys = "ollama" /\ Returned /\ outcome.kind = "exception"
    /\ model_calls = 1 /\ returned_by = "ollama_fallback"

---------------------------------------------------------------------------
(* Properties of the live service, checked under ServiceSpec *)

InModelCall(r) == requests[r].pc \in {"extracting", "scoring"}
Answered(r) == requests[r].pc = "done"

\* C12: while one request of /analyze-resume waits for its model call to return,
\* another request that is new or has its upload read can take its next step: the
\* model call suspends only the request that issued it.
C12_OthersProgressDuringModelCall ==
    \A r \in Requests : \A q \in Requests \ {r} :
        (InModelCall(r) /\ requests[q].pc \in {"new", "reading"})
            => ENABLED (Accept(q) \/ AfterRead(q))

\* the text the handler gets from parse_file is empty after trimming
ExtractedTextIsEmpty(r) ==
    /\ requests[r].pc \notin {"new", "reading"}
    /\ analyzer = "ready" /\ supported_file(requests[r].file)
    /\ ~parse_file(requests[r].file).raised
    /\ Strip(parse_file(requests[r].file).score) = ""

\* C13: in /analyze-resume, when the text extracted from the upload is empty after
\* trimming, the request is answered with status 400 and the detail
\* 'No text content found in file', and no model call, section extraction or scoring
\* is made for it.
C13_EmptyTextRejected ==
    \A r \in Requests :
        ExtractedTextIsEmpty(r) =>
            /\ Answered(r)
            /\ requests[r].response = HTTPException(400, "No text content found in file")
            /\ requests[r].model_calls = 0
            /\ requests[r].sections_by = "none" /\ requests[r].ats_by = "none"

C13_Witness ==
    \E r \in Requests :
        /\ ExtractedTextIsEmpty(r) /\ Answered(r)
        /\ requests[r].file.text = "  \n \n"
        /\ requests[r].response.status_code = 400

\* C14: a failure of the external model (unreachable at start-up, or a call that
\* fails or returns what cannot be parsed) never becomes an error response of
\* /analyze-resume: the request is answered 200 with an analysis.
C14_DependencyFailureAbsorbed ==
    \A r \in Requests :
        (Answered(r) /\ requests[r].failures # {}) => requests[r].response.status_code = 200

---------------------------------------------------------------------------
(* DocumentParser.classify_section_type (main_old.py): the line classifier *)

\* the keys of section_keywords, in the order of the dict
SectionTypes == <<"personal", "summary", "experience", "education", "skills", "projects">>

section_keywords ==
    [personal |-> <<"contact", "personal information", "personal details", "profile",
                    "address", "phone", "email", "linkedin", "github">>,
     summary |-> <<"summary", "objective", "profile summary", "career objective", "about",
                   "professional summary", "overview", "career summary">>,
     experience |-> <<"experience", "work experience", "employment", "career history",
                      "professional experience", "work history", "employment history",
                      "professional background">>,
     education |-> <<"education", "academic", "qualifications", "degrees", "certifications",
                     "academic background", "educational background", "university",
                     "college", "school">>,
     skills |-> <<"skills", "technical skills", "competencies", "expertise", "technologies",
                  "programming languages", "tools", "software">>,
     projects |-> <<"projects", "portfolio", "work samples", "achievements",
                    "personal projects", "side projects", "open source">>]

\* regex \w, \d, \s and \b on the character at position i of s (none outside s)
DigitChars == {Char(Digits, k) : k \in 1..Len(Digits)}
LowerChars == {Char(LowerAlpha, k) : k \in 1..Len(LowerAlpha)}
WordChars ==
    DigitChars \cup LowerChars \cup {Char(UpperAlpha, k) : k \in 1..Len(UpperAlpha)} \cup {"_"}
IsDigitAt(s, i) == i >= 1 /\ i <= Len(s) /\ Char(s, i) \in DigitChars
IsWordAt(s, i) == i >= 1 /\ i <= Len(s) /\ Char(s, i) \in WordChars
IsSpaceAt(s, i) == i >= 1 /\ i <= Len(s) /\ Char(s, i) \in {" ", "\t", "\n", "\r", "\f"}
\* the positions of s where \b holds: between characters i - 1 and i
Boundaries(s) == {i \in 1..(Len(s) + 1) : IsWordAt(s, i - 1) # IsWordAt(s, i)}

\* s holds w at position i
At(s, i, w) == i >= 1 /\ i + Len(w) - 1 <= Len(s) /\ SubSeq(s, i, i + Len(w) - 1) = w
\* \d{n} at position i
DigitsAt(s, i, n) == \A k \in 0..(n - 1) : IsDigitAt(s, i + k)
\* the position after the longest run from i on of characters satisfying the test
RunEnd(s, i, InClass(_, _)) ==
    CHOOSE j \in i..Max(i, Len(s) + 1) :
        /\ j > Len(s) \/ ~InClass(s, j)
        /\ \A k \in i..(j - 1) : InClass(s, k)

\* the character classes of the email pattern, on a lower-case text
InLocalClass(s, i) ==
    i <= Len(s) /\ Char(s, i) \in LowerChars \cup DigitChars \cup {".", "_", "%", "+", "-"}
InDomainClass(s, i) == i <= Len(s) /\ Char(s, i) \in LowerChars \cup DigitChars \cup {".", "-"}
InTldClass(s, i) == i <= Len(s) /\ Char(s, i) \in LowerChars \cup {"|"}

\* a pattern \b(w1|...|wn)\b
Words(ws) == [kind |-> "words", words |-> ws]
Special(kind) == [kind |-> kind, words |-> {}]

\* the dict `patterns` of classify_section_type; summary has no pattern
patterns ==
    [personal |-> <<Special("phone"), Special("email"), Special("social"), Special("zip")>>,
     summary |-> <<>>,
     experience |-> <<Special("month_year"), Special("year_range"),
                      Words({"present", "current"}),
                      Words({"developed", "created", "built", "managed", "led", "designed",
                             "implemented"})>>,
     education |-> <<Words({"bachelor", "master", "phd", "doctorate", "diploma",
                            "certificate"}),
                     Words({"university", "college", "institute", "school"}),
                     Special("gpa"), Special("year_range")>>,
     skills |-> <<Words({"python", "javascript", "java", "react", "node", "html", "css",
                         "sql", "aws", "docker"}),
                  Words({"programming", "development", "software", "technical"}),
                  Words({"proficient", "experienced", "expert", "familiar"})>>,
     projects |-> <<Words({"project", "built", "developed", "created", "designed"}),
                    Words({"github", "repository", "demo", "live"}),
                    Words({"technologies", "stack", "framework"})>>]

Months == {"jan", "feb", "mar", "apr", "may", "jun", "jul", "aug", "sep", "oct", "nov", "dec"}

\* \b at position i, bs being Boundaries(s)
InB(bs, i) == i \in bs

\* \b(w1|...|wn)\b at i: the alternatives hold word characters only, so a match is a
\* whole run of word characters
WordsEnd(s, bs, i, ws) ==
    IF InB(bs, i) /\ \E w \in ws : At(s, i, w) /\ InB(bs, i + Len(w))
    THEN i - 1 + Len(CHOOSE w \in ws : At(s, i, w) /\ InB(bs, i + Len(w)))
    ELSE 0

\* \b\d{3}[-.\s]?\d{3}[-.\s]?\d{4}\b
PhoneEnd(s, bs, i) ==
    LET sep(j) == IsSpaceAt(s, j) \/ At(s, j, "-") \/ At(s, j, ".")
        second == IF sep(i + 3) THEN i + 4 ELSE i + 3
        third == IF sep(second + 3) THEN second + 4 ELSE second + 3
    IN  IF /\ InB(bs, i) /\ DigitsAt(s, i, 3) /\ DigitsAt(s, second, 3)
           /\ DigitsAt(s, third, 4) /\ InB(bs, third + 4)
        THEN third + 3 ELSE 0

\* \b[A-Za-z0-9._%+-]+@[A-Za-z0-9.-]+\.[A-Z|a-z]{2,}\b: the local part runs up to the
\* '@'; the domain is tried longest first, and so is the last part
EmailEnd(s, bs, i) ==
    IF ~(InB(bs, i) /\ InLocalClass(s, i)) THEN 0
    ELSE Bind(RunEnd(s, i, InLocalClass), LAMBDA at :
         IF ~At(s, at, "@") THEN 0
         ELSE Bind(RunEnd(s, at + 1, InDomainClass), LAMBDA domain_end :
              Bind({<<dot, e>> \in ((at + 2)..(domain_end - 1)) \X ((at + 4)..Len(s)) :
                        /\ At(s, dot, ".")
                        /\ e >= dot + 2 /\ e < RunEnd(s, dot + 1, InTldClass)
                        /\ InB(bs, e + 1)},
                   LAMBDA ends :
                  IF ends = {} THEN 0
                  ELSE (CHOOSE m \in ends :
                           \A o \in ends : o[1] < m[1] \/ (o[1] = m[1] /\ o[2] <= m[2]))[2])))

\* \b(linkedin|github)\.com\b
SocialEnd(s, bs, i) ==
    IF /\ InB(bs, i)
       /\ \E w \in {"linkedin.com", "github.com"} : At(s, i, w) /\ InB(bs, i + Len(w))
    THEN i - 1 + Len(CHOOSE w \in {"linkedin.com", "github.com"} : At(s, i, w))
    ELSE 0

\* \b\d{5}(-\d{4})?\b
ZipEnd(s, bs, i) ==
    IF ~(InB(bs, i) /\ DigitsAt(s, i, 5)) THEN 0
    ELSE IF At(s, i + 5, "-") /\ DigitsAt(s, i + 6, 4) /\ InB(bs, i + 10) THEN i + 9
    ELSE IF InB(bs, i + 5) THEN i + 4
    ELSE 0

\* \b(jan|...|dec)\s+\d{4}\b
MonthYearEnd(s, bs, i) ==
    IF ~(InB(bs, i) /\ \E m \in Months : At(s, i, m)) THEN 0
    ELSE Bind(RunEnd(s, i + 3, IsSpaceAt), LAMBDA year :
             IF year > i + 3 /\ DigitsAt(s, year, 4) /\ InB(bs, year + 4)
             THEN year + 3 ELSE 0)

\* \b\d{4}\s*[-–]\s*\d{4}\b, on texts without the en dash
YearRangeEnd(s, bs, i) ==
    IF ~(InB(bs, i) /\ DigitsAt(s, i, 4)) THEN 0
    ELSE Bind(RunEnd(s, i + 4, IsSpaceAt), LAMBDA dash :
         IF ~At(s, dash, "-") THEN 0
         ELSE Bind(RunEnd(s, dash + 1, IsSpaceAt), LAMBDA year :
                  IF DigitsAt(s, year, 4) /\ InB(bs, year + 4) THEN year + 3 ELSE 0))

\* \b(gpa|cgpa)\s*:?\s*\d+\.\d+\b
GpaEnd(s, bs, i) ==
    IF ~(InB(bs, i) /\ (At(s, i, "gpa") \/ At(s, i, "cgpa"))) THEN 0
    ELSE Bind(RunEnd(s, IF At(s, i, "gpa") THEN i + 3 ELSE i + 4, IsSpaceAt), LAMBDA colon :
         Bind(RunEnd(s, IF At(s, colon, ":") THEN colon + 1 ELSE colon, IsSpaceAt),
              LAMBDA whole :
         Bind(RunEnd(s, whole, IsDigitAt), LAMBDA dot :
         Bind(RunEnd(s, dot + 1, IsDigitAt), LAMBDA after :
             IF dot > whole /\ At(s, dot, ".") /\ after > dot + 1 /\ InB(bs, after)
             THEN after - 1 ELSE 0))))

\* the last position of the match of the pattern that starts at i, or 0
MatchEnd(pattern, s, bs, i) ==
    CASE pattern.kind = "words" -> WordsEnd(s, bs, i, pattern.words)
      [] pattern.kind = "phone" -> PhoneEnd(s, bs, i)
      [] pattern.kind = "email" -> EmailEnd(s, bs, i)
      [] pattern.kind = "social" -> SocialEnd(s, bs, i)
      [] pattern.kind = "zip" -> ZipEnd(s, bs, i)
      [] pattern.kind = "month_year" -> MonthYearEnd(s, bs, i)
      [] pattern.kind = "year_range" -> YearRangeEnd(s, bs, i)
      [] pattern.kind = "gpa" -> GpaEnd(s, bs, i)

RECURSIVE FindallCount(_, _, _, _)
\* len(re.findall(pattern, s)) from position i on: the matches are taken from left
\* to right and do not overlap
FindallCount(pattern, s, bs, i) ==
    Bind({j \in {k \in bs : k >= i} : MatchEnd(pattern, s, bs, j) > 0}, LAMBDA starts :
        IF starts = {} THEN 0
        ELSE Bind(CHOOSE j \in starts : \A k \in starts : j <= k, LAMBDA j :
                 1 + FindallCount(pattern, s, bs, MatchEnd(pattern, s, bs, j) + 1)))

RECURSIVE SumOver(_, _, _)
\* the sum of f[k] for k in 1..n
SumOver(f, n, k) == IF k > n THEN 0 ELSE f[k] + SumOver(f, n, k + 1)

\* mutant: a keyword counts in the first 50 characters only
keyword_score_title_only(section_type, text_lower) ==
    Bind(Slice(text_lower, 1, 50), LAMBDA head :
        SumOver([k \in 1..Len(section_keywords[section_type]) |->
                    IF Contains(section_keywords[section_type][k], head) THEN 3 ELSE 0],
                Len(section_keywords[section_type]), 1))

\* the keyword points of a type: 3 for a keyword in the first 50 characters, 1 for a
\* keyword found later only
keyword_score(section_type, text_lower) ==
    Bind(Slice(text_lower, 1, 50), LAMBDA head :
        SumOver([k \in 1..Len(section_keywords[section_type]) |->
                    IF ~Contains(section_keywords[section_type][k], text_lower) THEN 0
                    ELSE IF Contains(section_keywords[section_type][k], head) THEN 3
                    ELSE 1],
                Len(section_keywords[section_type]), 1))

\* the pattern points of a type: 2 for every match
pattern_score(section_type, text_lower, bs) ==
    SumOver([k \in 1..Len(patterns[section_type]) |->
                2 * FindallCount(patterns[section_type][k], text_lower, bs, 1)],
            Len(patterns[section_type]), 1)

\* section_scores once both loops have run
section_scores(text) ==
    Bind(Lower(text), LAMBDA text_lower :
    Bind(Boundaries(text_lower), LAMBDA bs :
        [section_type \in Range(SectionTypes) |->
            keyword_score(section_type, text_lower)
            + pattern_score(section_type, text_lower, bs)]))

\* mutant: among the types of the highest score the last one of the dict is returned
winner_last(scores) ==
    SectionTypes[CHOOSE k \in 1..Len(SectionTypes) :
                    /\ \A j \in 1..Len(SectionTypes) : scores[SectionTypes[j]] <= scores[SectionTypes[k]]
                    /\ \A j \in (k + 1)..Len(SectionTypes) :
                          scores[SectionTypes[j]] < scores[SectionTypes[k]]]

\* the first type of the dict that has the highest score
winner(scores) ==
    SectionTypes[CHOOSE k \in 1..Len(SectionTypes) :
                    /\ \A j \in 1..Len(SectionTypes) : scores[SectionTypes[j]] <= scores[SectionTypes[k]]
                    /\ \A j \in 1..(k - 1) : scores[SectionTypes[j]] < scores[SectionTypes[k]]]

\* the fallback heuristics of classify_section_type, for a text without points
fallback_type(text) ==
    Bind(Lower(text), LAMBDA text_lower :
        IF Contains("@", text) \/ ContainsAny({"phone", "email", "address"}, text_lower)
        THEN "personal"
        ELSE IF ContainsAny({"university", "degree", "bachelor", "master", "phd"}, text_lower)
        THEN "education"
        ELSE IF ContainsAny({"company", "manager", "developer", "analyst", "engineer"},
                            text_lower)
        THEN "experience"
        ELSE IF ContainsAny({"python", "javascript", "java", "react", "node"}, text_lower)
        THEN "skills"
        ELSE "other")

\* classify_section_type with the scores it computed
classified(text) ==
    Bind(section_scores(text), LAMBDA scores :
        [scores |-> scores,
         type |-> IF \E t \in Range(SectionTypes) : scores[t] > 0 THEN winner(scores)
                  ELSE fallback_type(text)])

---------------------------------------------------------------------------
(* The classifier run on a text, and again on the text with a keyword added *)

ClassifierTexts ==
    {"", "John Doe", "jane@x", "Senior Analyst", "Honours degree", "nodejs notes",
     "Overview of tools", "School projects",
     "Contact me any time of the day by phone or email",
     "Call 555-123-4567 or john@example.com, zip 12345-6789",
     "Software Engineer at Acme Corp 2020 - 2024, built APIs",
     "Bachelor of Science, State University, 2019, GPA: 3.9",
     "Skills: Python, SQL, Docker; proficient in software tools",
     "linkedin.com/in/jd github.com/jd",
     "Started jan 2020, left dec  2021, current role since"}

\* where a keyword is added: in front, in the middle, at the end, each time set off
\* by a space
Places == {"front", "middle", "end"}

WithKeyword(text, keyword, place) ==
    CASE place = "front" -> keyword \o " " \o text
      [] place = "end" -> text \o " " \o keyword
      [] place = "middle" -> SubSeq(text, 1, Len(text) \div 2) \o " " \o keyword \o " "
                             \o SubSeq(text, Len(text) \div 2 + 1, Len(text))

Additions ==
    UNION {{[type |-> SectionTypes[t], keyword |-> section_keywords[SectionTypes[t]][k],
             place |-> place] :
               k \in 1..Len(section_keywords[SectionTypes[t]]), place \in Places} :
           t \in 1..Len(SectionTypes)}

ClassifierInit ==
    /\ sys = "classifier" /\ pc = "classify"
    /\ raw_text \in ClassifierTexts
    /\ lines = <<>> /\ used_lines = {} /\ sections = <<>>
    /\ SegVarsIdle

ClassifierFrame ==
    /\ ServiceUnchanged
    /\ UNCHANGED <<sys, lines, used_lines, sections, api_key_arg, env_key, api_key,
                   model_calls, returned_by>>

\* classify_section_type(text)
Classify ==
    /\ sys = "classifier" /\ pc = "classify"
    /\ result' = classified(raw_text)
    /\ pc' = "classified"
    /\ UNCHANGED <<raw_text, outcome>>
    /\ ClassifierFrame

\* classify_section_type on the text with one more keyword of a type; outcome keeps
\* what was added and the scores of the text before
AddKeyword ==
    /\ sys = "classifier" /\ pc = "classified"
    /\ \E added \in Additions :
           /\ raw_text' = WithKeyword(raw_text, added.keyword, added.place)
           /\ outcome' = [kind |-> "added", type |-> added.type, keyword |-> added.keyword,
                          place |-> added.place, text |-> raw_text, before |-> result]
           /\ result' = classified(raw_text')
    /\ pc' = "extended"
    /\ ClassifierFrame

ClassifierNext == Classify \/ AddKeyword

ClassifierSpec == ClassifierInit /\ [][ClassifierNext]_vars

---------------------------------------------------------------------------
(* The scenarios of the segmenter, checked under SegSpec *)

ScenarioALines == SelectSeq(ScenarioA, LAMBDA l : l # "")
ScenarioAReturned == sys = "segmenter" /\ pc = "done" /\ lines = ScenarioALines

\* a returned section of the type owns the line
HoldsLine(type, line) ==
    \E k \in 1..Len(sections) :
        sections[k].type = type /\ \E i \in Owned(sections[k]) : lines[i] = line

\* C15: for the ten lines of Scenario A the segmenter returns a personal section with
\* the email and phone lines, an experience section with the Acme line, an education
\* section with the degree line and a skills section with 'Python, SQL, Docker'.
C15_ScenarioASegmentation ==
    ScenarioAReturned =>
        /\ HoldsLine("personal", "john@example.com")
        /\ HoldsLine("personal", "555-123-4567")
        /\ HoldsLine("experience", "Software Engineer at Acme Corp 2020-Present")
        /\ HoldsLine("education", "Bachelor of Science, State University, 2019")
        /\ HoldsLine("skills", "Python, SQL, Docker")

\* C16: the sections returned for Scenario A, scored by the rule-based path, get
\* contact_info >= 16 and education_credentials >= 20.
C16_ScenarioAScores ==
    ScenarioAReturned =>
        /\ category_scores_of(sections).contact_info >= 16
        /\ category_scores_of(sections).education_credentials >= 20

\* no test of a pass finds a section header or a keyword in the line
KeywordFree(l) ==
    /\ ~LineFacts[l].personal_contact /\ ~LineFacts[l].work
    /\ \A mode \in {LineFacts[l].summary, LineFacts[l].education, LineFacts[l].skills,
                    LineFacts[l].projects} : ~mode.start /\ ~mode.header /\ ~mode.end
    /\ ~LineFacts[l].education_remaining /\ ~LineFacts[l].skills_remaining
    /\ Lower(l) \notin AdditionalSkippedHeaders
    /\ ~ContainsAny(AdditionalKeywords \cup AdditionalExcluded, Lower(l))

KeywordFreeReturned ==
    /\ sys = "segmenter" /\ pc = "done" /\ lines # <<>>
    /\ \A i \in 1..Len(lines) : KeywordFree(lines[i])

\* the types of the returned sections are personal, experience, skills, in this order
PositionTypes ==
    /\ Len(sections) <= 3
    /\ \A k \in 1..Len(sections) : sections[k].type = <<"personal", "experience", "skills">>[k]

\* the statement of Scenario C as written: a resume without header and keyword falls
\* through to the position-based split and gets exactly 2 or 3 sections
C17_TwoOrThreeSections ==
    KeywordFreeReturned =>
        FallbackTaken /\ Len(sections) \in {2, 3} /\ PositionTypes

\* C17: a resume without header and keyword falls through to the position-based
\* split exactly when no pass claims a line, that is when its first line is no
\* title-case name and no line has more than three characters (the additional pass
\* takes every other keyword-free line). The split returns 1 to 3 sections typed
\* personal, experience, skills in this order, a single personal section exactly
\* when the resume has at most five lines. Without the fall-through the sections are
\* of the types personal and additional.
C17_FallThrough ==
    KeywordFreeReturned =>
        /\ FallbackTaken <=> /\ ~LineFacts[lines[1]].personal_name
                             /\ \A i \in 1..Len(lines) : Len(lines[i]) <= 3
        /\ FallbackTaken =>
              /\ Len(sections) \in 1..3 /\ PositionTypes
              /\ Len(sections) = 1 <=> Len(lines) <= 5
        /\ ~FallbackTaken =>
              \A k \in 1..Len(sections) : sections[k].type \in {"personal", "additional"}

\* a resume of thirteen keyword-free lines split into three sections
C17_Witness ==
    /\ KeywordFreeReturned /\ FallbackTaken
    /\ Len(lines) = 13 /\ Len(sections) = 3

---------------------------------------------------------------------------
(* Properties of the classifier, checked under ClassifierSpec *)

Classified == sys = "classifier" /\ pc \in {"classified", "extended"}
KeywordAdded == sys = "classifier" /\ pc = "extended"

\* the statement of the monotonicity as written: one more keyword of a type, added
\* at any place of the text, never decreases the score of that type
C18_MonotoneAnywhere ==
    KeywordAdded => result.scores[outcome.type] >= outcome.before.scores[outcome.type]

\* C18: one more keyword of a type added at the end of the text, after a space, never
\* decreases the score classify_section_type computes for that type, and raises it
\* when the text did not hold the keyword.
C18_MonotoneAtEnd ==
    (KeywordAdded /\ outcome.place = "end") =>
        /\ result.scores[outcome.type] >= outcome.before.scores[outcome.type]
        /\ ~Contains(outcome.keyword, Lower(outcome.text)) =>
              result.scores[outcome.type] > outcome.before.scores[outcome.type]

\* a keyword added at the end of a text of more than 50 characters that holds
\* keywords and pattern matches of the type
C18_Witness ==
    /\ KeywordAdded /\ outcome.place = "end" /\ Len(outcome.text) > 50
    /\ outcome.type = "skills" /\ outcome.before.scores["skills"] = 15
    /\ result.scores["skills"] > 15

HighestScore(scores) ==
    CHOOSE m \in {scores[t] : t \in Range(SectionTypes)} :
        \A t \in Range(SectionTypes) : scores[t] <= m

FallbackWords ==
    {"phone", "email", "address", "university", "degree", "bachelor", "master", "phd",
     "company", "manager", "developer", "analyst", "engineer", "python", "javascript",
     "java", "react", "node"}

\* C19: when some score is positive classify_section_type returns the type of the
\* highest score, the first one in the order personal, summary, experience, education,
\* skills, projects among equals; it returns 'other' only when every score is 0 and
\* no fallback heuristic matches; it never returns 'additional'.
C19_HighestFirst ==
    Classified =>
        /\ result.type \in Range(SectionTypes) \cup {"other"}
        /\ HighestScore(result.scores) > 0 =>
              \E k \in 1..Len(SectionTypes) :
                  /\ result.type = SectionTypes[k]
                  /\ result.scores[SectionTypes[k]] = HighestScore(result.scores)
                  /\ \A j \in 1..(k - 1) :
                        result.scores[SectionTypes[j]] < HighestScore(result.scores)
        /\ result.type = "other" =>
              /\ HighestScore(result.scores) = 0
              /\ ~Contains("@", raw_text)
              /\ ~ContainsAny(FallbackWords, Lower(raw_text))

\* two types share the highest score and the earlier one is returned
C19_Witness ==
    /\ Classified /\ raw_text = "Overview of tools"
    /\ result.scores["summary"] = 3 /\ result.scores["skills"] = 3
    /\ result.type = "summary"

---------------------------------------------------------------------------
(* The parse strategies of the Ollama scorer, checked under ScorerSpec *)

OllamaAnswered == sys = "ollama" /\ Returned /\ outcome.kind = "ok"

\* the strategies whose parse of the response succeeds
Succeeding(response_text) ==
    {k \in 1..3 : strategy_values(response_text)[k] # JInvalid}

\* C20: score_ats_with_ollama tries direct parse, regex extraction and code-fence
\* stripping in this order; a later strategy runs only when every earlier one failed,
\* the value of the first strategy that succeeds is the one the score is built from,
\* and the rule-based fallback is returned only when all three fail.
C20_FirstSuccessUsed ==
    OllamaAnswered =>
        LET response_text == Strip(outcome.text)
            ok == Succeeding(response_text)
            first == CHOOSE k \in ok : \A j \in ok : k <= j
        IN  /\ \A k \in strategies_run(response_text) : \A j \in 1..(k - 1) : j \notin ok
            /\ ok # {} =>
                  /\ returned_by = "ollama"
                  /\ ollama_parsed_data(response_text) = strategy_values(response_text)[first]
            /\ returned_by = "ollama_fallback" => ok = {}

---------------------------------------------------------------------------
(* The defaults for the fields a reply leaves out, checked under ScorerSpec *)

\* the reply holds a JSON object whose reported fields have the types ATSScore takes
ObjectParsed ==
    /\ sys \in {"openrouter", "ollama"} /\ Returned /\ model_calls = 1
    /\ outcome.kind = "ok" /\ outcome.recovered /\ ReportWellTyped

\* the defaults written into the .get calls of the scorer that ran
MissingFieldDefaults ==
    IF sys = "openrouter"
    THEN [overall_score |-> 70, category_scores |-> DefaultCategory,
          suggestions |-> DefaultSuggestions, strengths |-> GenericStrengths]
    ELSE [overall_score |-> 75, category_scores |-> OllamaDefaultCategory,
          suggestions |-> OllamaDefaultSuggestions, strengths |-> GenericStrengths]

\* the category keys the reply reports
ReportedCategoryKeys ==
    IF outcome.reported.category_scores.t # "obj" THEN {}
    ELSE {outcome.reported.category_scores.v[k][1] :
             k \in 1..Len(outcome.reported.category_scores.v)}

\* every field the reply leaves out has its default in the result
MissingFieldsDefaulted ==
    /\ outcome.reported.overall_score = Absent =>
           result.overall_score = MissingFieldDefaults.overall_score
    /\ \A key \in CategoryKeys \ ReportedCategoryKeys :
           /\ key \in DOMAIN result.category_scores
           /\ result.category_scores[key] = MissingFieldDefaults.category_scores[key]
    /\ outcome.reported.suggestions = Absent =>
           result.suggestions = MissingFieldDefaults.suggestions
    /\ outcome.reported.strengths = Absent =>
           result.strengths = MissingFieldDefaults.strengths

\* C21: whenever the response of the model parses as a JSON object, every field
\* missing from it (overall_score, category_scores or one of its keys, suggestions,
\* strengths) is replaced by its fixed default and the model-assisted result is
\* returned without running the rule-based path, the empty object {} included.
C21_MissingFieldsDefaulted ==
    ObjectParsed => returned_by \in {"ai", "ollama"} /\ MissingFieldsDefaulted

---------------------------------------------------------------------------
(* The targeted suggestions and strengths of the rule-based scorer, checked   *)
(* under ScorerSpec                                                           *)

\* the suggestion, respectively the strength, written for a category
TargetedSuggestion ==
    [contact_info |-> SuggestContact, keywords_skills |-> SuggestKeywords,
     experience_relevance |-> SuggestExperience, format_structure |-> SuggestFormat]
TargetedStrength ==
    [contact_info |-> StrengthContact, experience_relevance |-> StrengthExperience,
     keywords_skills |-> StrengthKeywords, format_structure |-> StrengthFormat]

\* _enhanced_fallback_analysis returned the score it computed, not the constant
RuleBasedComputed == RuleBasedReturned /\ returned_by = "rule_based"

\* the statement as written: each of the five categories has a targeted suggestion
\* that is returned below 15 and a targeted strength that is returned from 20 on
C22_EachOfFive ==
    RuleBasedReturned =>
        \A key \in CategoryKeys :
            /\ result.category_scores[key] < 15 =>
                   /\ key \in DOMAIN TargetedSuggestion
                   /\ TargetedSuggestion[key] \in Range(result.suggestions)
            /\ result.category_scores[key] >= 20 =>
                   /\ key \in DOMAIN TargetedStrength
                   /\ TargetedStrength[key] \in Range(result.strengths)

\* C22: in a result the rule-based scorer computed, for each of the four categories
\* contact_info, keywords_skills, experience_relevance and format_structure: a score
\* below 15 puts the category's targeted suggestion into the suggestions, and a score
\* of at least 20 puts its targeted strength into the strengths, but for the strength
\* of format_structure, which is cut off when the three other categories reach 20 as
\* well. education_credentials has neither.
C22_FourTargeted ==
    RuleBasedComputed =>
        /\ \A key \in DOMAIN TargetedSuggestion :
               result.category_scores[key] < 15 =>
                   TargetedSuggestion[key] \in Range(result.suggestions)
        /\ \A key \in DOMAIN TargetedStrength \ {"format_structure"} :
               result.category_scores[key] >= 20 =>
                   TargetedStrength[key] \in Range(result.strengths)
        /\ StrengthFormat \in Range(result.strengths) <=>
               /\ result.category_scores["format_structure"] >= 20
               /\ \E key \in DOMAIN TargetedStrength : result.category_scores[key] < 20

\* the four categories below 15: four targeted suggestions and no padding
C22_Witness ==
    /\ RuleBasedComputed
    /\ \A key \in DOMAIN TargetedSuggestion : result.category_scores[key] < 15
    /\ result.suggestions = <<SuggestContact, SuggestKeywords, SuggestExperience, SuggestFormat>>

---------------------------------------------------------------------------
(* The number of suggestions and strengths of the rule-based scorer, checked  *)
(* under ScorerSpec                                                           *)

\* the categories with a targeted suggestion, in the order the code tests them
SuggestionOrder ==
    <<"contact_info", "keywords_skills", "experience_relevance", "format_structure">>

\* the category-specific suggestions the returned category scores call for
GeneratedSuggestions ==
    LET low == SelectSeq(SuggestionOrder, LAMBDA key : result.category_scores[key] < 15)
    IN  [k \in 1..Len(low) |-> TargetedSuggestion[low[k]]]

\* C23: the rule-based scorer always returns 3 or 4 suggestions: when fewer than 3
\* category-specific suggestions were generated, generic ones are appended after
\* them, in their fixed order, until there are 4; and it always returns between 1
\* and 3 strengths, the two generic strengths when no category reached 20.
C23_SuggestionAndStrengthCounts ==
    RuleBasedReturned =>
        /\ Len(result.suggestions) \in {3, 4}
        /\ Len(result.strengths) \in 1..3
        /\ RuleBasedComputed =>
              /\ Len(GeneratedSuggestions) < 3 =>
                     result.suggestions =
                         GeneratedSuggestions
                         \o SubSeq(AdditionalSuggestions, 1, 4 - Len(GeneratedSuggestions))
              /\ Len(GeneratedSuggestions) >= 3 => result.suggestions = GeneratedSuggestions
              /\ (\A key \in CategoryKeys : result.category_scores[key] < 20) =>
                     result.strengths = GenericStrengths

\* two category-specific suggestions padded with the first two generic ones, and the
\* generic strengths as no category reached 20
C23_Witness ==
    /\ RuleBasedComputed
    /\ Len(GeneratedSuggestions) = 2
    /\ Len(result.suggestions) = 4
    /\ result.suggestions[3] = AdditionalSuggestions[1]
    /\ \A key \in CategoryKeys : result.category_scores[key] < 20
    /\ result.strengths = GenericStrengths

---------------------------------------------------------------------------
(* The end of the summary pass, checked under SegSpec *)

\* the summary pass has run and the list is the one the passes build
AfterSummaryPass ==
    /\ sys = "segmenter"
    /\ pc \in {"experience", "education", "skills", "projects", "education_salvage",
               "skills_salvage", "additional", "return"}

\* the lines a section of the type owns
OwnedBy(type) ==
    UNION {Owned(sections[k]) : k \in {j \in 1..Len(sections) : sections[j].type = type}}

\* the lines the summary pass looks at: the ones the personal pass left
SummaryCandidates == (1..Len(lines)) \ OwnedBy("personal")

\* the smallest member of a non-empty set of line indices
Least(S) == CHOOSE i \in S : \A j \in S : i <= j

\* the candidates that start summary mode
SummaryTriggers == {i \in SummaryCandidates : LineFacts[lines[i]].summary.start}

\* the candidates after the trigger line that contain 'experience', 'education',
\* 'skills' or 'projects'
EndKeywordLines ==
    {i \in SummaryCandidates :
        i > Least(SummaryTriggers) /\ LineFacts[lines[i]].summary.end}

\* the statement as written: the first candidate with an end keyword ends the pass,
\* and every candidate between the trigger line and it is claimed
C24_EndKeywordEndsPass ==
    (AfterSummaryPass /\ SummaryTriggers # {} /\ EndKeywordLines # {}) =>
        /\ \A j \in Least(EndKeywordLines)..Len(lines) : j \notin OwnedBy("summary")
        /\ \A j \in SummaryCandidates :
               (Least(SummaryTriggers) < j /\ j < Least(EndKeywordLines)) =>
                   j \in OwnedBy("summary")

\* the candidates after the trigger line with an end keyword and no start keyword
SummaryEndLines ==
    {i \in EndKeywordLines : ~LineFacts[lines[i]].summary.start}

\* the line that ends the pass, the line after the last one when there is none
SummaryStop == IF SummaryEndLines = {} THEN Len(lines) + 1 ELSE Least(SummaryEndLines)

\* C24: in the summary pass, once summary mode has started, the first unclaimed line
\* that contains 'experience', 'education', 'skills' or 'projects' and none of
\* 'objective', 'summary', 'profile', 'about' ends the pass: that line and every
\* later line are not claimed by the summary section, and every unclaimed line
\* between the trigger line and that line is claimed by it unless it is just one of
\* the four header words.
C24_EndLineEndsPass ==
    (AfterSummaryPass /\ SummaryTriggers # {}) =>
        /\ \A j \in SummaryStop..Len(lines) : j \notin OwnedBy("summary")
        /\ \A j \in SummaryCandidates :
               (Least(SummaryTriggers) < j /\ j < SummaryStop) =>
                   (j \in OwnedBy("summary") <=> ~LineFacts[lines[j]].summary.header)

\* a header line starts the mode, the next line is claimed, the pass ends on a line
\* with an end keyword and a later line without any keyword is left
C24_Witness ==
    /\ AfterSummaryPass /\ SummaryTriggers # {} /\ SummaryEndLines # {}
    /\ \E j \in OwnedBy("summary") : Least(SummaryTriggers) < j /\ j < SummaryStop
    /\ \E j \in SummaryCandidates :
           /\ j > SummaryStop /\ j \notin OwnedBy("summary")
           /\ ~LineFacts[lines[j]].summary.end

---------------------------------------------------------------------------
(* The order of the summary, experience and education passes, checked under   *)
(* SegSpec                                                                    *)

\* the experience and the education pass have run
AfterEducationPass ==
    /\ sys = "segmenter"
    /\ pc \in {"skills", "projects", "education_salvage", "skills_salvage", "additional",
               "return"}

\* the lines left to the experience pass, and those left to the education pass
ExperienceCandidates == SummaryCandidates \ OwnedBy("summary")
EducationCandidates == ExperienceCandidates \ OwnedBy("experience")

EducationTriggers == {i \in EducationCandidates : LineFacts[lines[i]].education.start}

\* the line that ends the education pass, the line after the last one when there is none
EducationStop ==
    LET ends == {i \in EducationCandidates :
                    /\ i > Least(EducationTriggers)
                    /\ LineFacts[lines[i]].education.end
                    /\ ~LineFacts[lines[i]].education.start}
    IN  IF ends = {} THEN Len(lines) + 1 ELSE Least(ends)

\* the line lies after the line that starts the mode and before the one that ends it
InSummaryBlock(i) ==
    /\ i \in SummaryCandidates /\ SummaryTriggers # {}
    /\ Least(SummaryTriggers) < i /\ i < SummaryStop
InEducationBlock(i) ==
    /\ i \in ExperienceCandidates /\ EducationTriggers # {}
    /\ Least(EducationTriggers) < i /\ i < EducationStop

\* the statement as written: a line with an experience predicate inside a summary
\* block or inside an education block belongs to the experience section
C25_ExperienceStarvesBoth ==
    AfterEducationPass =>
        \A i \in 1..Len(lines) :
            (LineFacts[lines[i]].work /\ (InSummaryBlock(i) \/ InEducationBlock(i))) =>
                /\ i \in OwnedBy("experience")
                /\ i \notin OwnedBy("summary") \cup OwnedBy("education")

\* C25: because of the fixed pass order personal, summary, experience, education, a
\* line that matches an experience predicate (it contains 'team', say), is left by
\* the personal and the summary pass and lies inside an education block is claimed
\* by the experience section, so the education pass does not own it; inside a
\* summary block it is the summary pass, which runs first, that claims the line, and
\* the experience section does not own it.
C25_ExperienceStarvesEducation ==
    AfterEducationPass =>
        \A i \in 1..Len(lines) :
            LineFacts[lines[i]].work =>
                /\ InEducationBlock(i) =>
                       i \in OwnedBy("experience") /\ i \notin OwnedBy("education")
                /\ InSummaryBlock(i) =>
                       i \in OwnedBy("summary") /\ i \notin OwnedBy("experience")

\* a line with 'team' between two lines of the education section, owned by the
\* experience section
C25_Witness ==
    /\ AfterEducationPass
    /\ \E i \in 1..Len(lines) :
           /\ LineFacts[lines[i]].work /\ InEducationBlock(i)
           /\ i \in OwnedBy("experience")
           /\ \E j, k \in OwnedBy("education") : j < i /\ i < k

---------------------------------------------------------------------------
(* The additional section and the header lines, checked under SegSpec *)

\* a primary pass takes the line as the bare header of its section: the line starts
\* the mode and is not appended
HeaderOnly(l) ==
    \E mode \in {LineFacts[l].summary, LineFacts[l].education, LineFacts[l].skills,
                  LineFacts[l].projects} : mode.start /\ mode.header

\* C26: the 'additional' section never contains a bare section-header line: every
\* line that a primary pass treats as a header-only trigger and leaves unclaimed
\* ('Profile', 'About', 'Qualifications', 'Academic Background', 'Competencies',
\* 'Technologies', 'Portfolio', 'Key Projects') is filtered out by the additional pass.
C26_NoHeaderInAdditional ==
    (sys = "segmenter" /\ pc \in {"return", "done"}) =>
        \A i \in OwnedBy("additional") : ~HeaderOnly(lines[i])

---------------------------------------------------------------------------
(* The salvage passes, checked under SegSpec *)

\* the number of sections of the type
CountOf(type) == Cardinality({k \in 1..Len(sections) : sections[k].type = type})

\* a salvage step taken with a section of its type in the list changes nothing
SalvageSkipped(at, type) ==
    (sys = "segmenter" /\ pc = at /\ HasType(sections, type)) =>
        UNCHANGED <<sections, used_lines>>

\* C27: the education (resp. skills) salvage pass runs only when the earlier passes
\* produced no education (resp. skills) section; consequently the list built by
\* _create_structured_resume, and the list returned, holds at most one section of
\* each type.
C27_SalvageOnlyWhenMissing ==
    /\ [][SalvageSkipped("education_salvage", "education")]_vars
    /\ [][SalvageSkipped("skills_salvage", "skills")]_vars
    /\ [](sys = "segmenter" =>
             \A type \in {"personal", "summary", "experience", "education", "skills",
                           "projects", "additional"} : CountOf(type) <= 1)

\* the education pass produced a section and left a line the salvage would take: the
\* salvage was skipped and the list still has one education section
C27_Witness ==
    /\ sys = "segmenter" /\ pc = "skills_salvage"
    /\ CountOf("education") = 1
    /\ \E i \in 1..Len(lines) :
           i \notin used_lines /\ LineFacts[lines[i]].education_remaining

---------------------------------------------------------------------------
(* The rule-based segmentation of the live path, checked under ServiceSpec *)

\* the sections of the request come from _fallback_section_extraction
SegmentedByRules(r) ==
    /\ sys = "service" /\ requests[r].pc \in {"scoring", "done"}
    /\ requests[r].sections_by = "ollama_fallback"

\* C28: for a raw text with at least one non-blank line _fallback_section_extraction
\* returns at least one section, and every section it returns has non-empty content,
\* in its header-driven branch as well as in its percentage-split branch.
C28_RulesReturnASection ==
    \A r \in Requests :
        (SegmentedByRules(r) /\ Strip(requests[r].raw_text) # "") =>
            /\ Len(requests[r].sections) >= 1
            /\ \A k \in 1..Len(requests[r].sections) : requests[r].sections[k].content # ""

----------------------------------------------------------------------------
(* C29: the rule-based score of the Ollama analyzer *)

OllamaFallbackReturned == sys = "ollama" /\ Returned /\ returned_by = "ollama_fallback"

\* the number of times the body of the padding loop ran for the sections scored
PaddingRounds == ensure_four(dynamic_suggestions(section_findings(sections)), 0).rounds

\* C29: whatever the sections, the score _fallback_ats_scoring returns has an
\* overall_score that is the plain sum of its five category scores and lies in
\* [55,81], so min(..., 100) leaves it as it is; it carries exactly 4 suggestions,
\* and the padding loop ends after at most one run of its body
C29_FallbackSumInBand ==
    OllamaFallbackReturned =>
        /\ result.overall_score = CategorySum(result.category_scores)
        /\ result.overall_score \in 55..81
        /\ Len(result.suggestions) = 4
        /\ PaddingRounds <= 1

\* every finding present in a list of more than 100 words: the highest total, no
\* dynamic suggestion but the one for short content, the loop body run once
C29_Witness ==
    /\ OllamaFallbackReturned
    /\ result.overall_score = 81
    /\ PaddingRounds = 1
    /\ result.suggestions[1] = "Expand content with more detailed descriptions"
    /\ result.suggestions[2] = OllamaPadding[1]

----------------------------------------------------------------------------
(* C30: the statuses of the legacy /ats-score endpoint *)

LegacyAnswered(r) == requests[r].pc = "done" /\ analyzer = "ready"
SectionsData(r) == GetOr(requests[r].body, "sections", JList(<<>>))
NoSections(r) == ~Truthy(SectionsData(r))
SectionList(r) == Truthy(SectionsData(r)) /\ SectionsData(r).t = "list"
ValidSection(r) ==
    SectionList(r) /\ \E k \in 1..Len(SectionsData(r).v) : SectionsData(r).v[k].t = "obj"

\* C30: with the analyzer available, /ats-score answers a request with no sections,
\* or with a list of sections none of which is a dict, with status 400, and a
\* request with at least one section dict with status 200 and a score
C30_InputErrorsKeepStatus ==
    \A r \in Requests :
        LegacyAnswered(r) =>
            /\ NoSections(r) \/ (SectionList(r) /\ ~ValidSection(r)) =>
                   requests[r].response.status_code = 400
            /\ ValidSection(r) => requests[r].response.status_code = 200

=============================================================================
